---------------------------- MODULE Spec2Model ----------------------------
(***************************************************************************)
(* A model of the analytics core of django-silky: the SQL fingerprinter    *)
(* and N+1 grouper (silk/utils/n_plus_one.py), the percentile estimator    *)
(* and the response-time histogram (silk/views/summary.py), and the        *)
(* filter-state and sort pipeline of the requests view                     *)
(* (silk/views/requests.py).                                               *)
(*                                                                         *)
(* Every component has its own variables and its own specification         *)
(* (SpecFingerprint, SpecNPlusOne, SpecPercentile, SpecHistogram,          *)
(* SpecRequests, SpecSort); a specification keeps the variables of the     *)
(* other components at their idle values.                                  *)
(*                                                                         *)
(* Text is a sequence of one-character strings.  Python floats are         *)
(* modelled by exact rationals with the denominator PctScale.              *)
(***************************************************************************)
EXTENDS Integers, Sequences, FiniteSets, TLC

VARIABLES
    tokens,         \* fingerprinter: the two SQL texts, token by token
    fp,             \* fingerprinter: the fingerprints of the two texts, or NotRun
    queries,        \* N+1 grouper: the input sequence of SQLQuery records
    threshold,      \* N+1 grouper: the repetition threshold
    np_result,      \* N+1 grouper: the NPlusOneResult, or NotRun
    sorted_data,    \* percentile: the ascending sample
    p,              \* percentile: the rank, 0..100
    pct,            \* percentile: the value returned (times PctScale), or NotRun
    time_taken,     \* histogram: the time_taken column of the Request table
    rt_hist,        \* histogram: the list of {label, count}, or NotRun
    session,        \* requests view: session['request_filters']
    request_sort,   \* requests view: session['request_sort'], NULL when not set
    request,        \* requests view: the request handled last, or NotRun
    previous_session, \* requests view: the filter state the last request read
    response,       \* requests view: the outcome of _create_context for the last request, or NotRun
    table,          \* sort pipeline: the Request rows, in the order recorded
    sort_list,      \* sort pipeline: the list of {field, dir}
    sorted_rows,    \* sort pipeline: the rows _apply_sort returned, or NotRun
    objects,        \* listing: the call of _get_objects made last and its outcome, or NotRun
    records,        \* aggregator: the Request rows, each with its Response and SQLQuery rows
    report,         \* aggregator: the derived view computed last, or NotRun
    summary_filters, \* summary view: session['summary_filters']
    summary,        \* summary view: the request handled last and the outcome of _create_context, or NotRun
    sessions,       \* sessions: what each session holds under each of its keys
    callers,        \* sessions: the requests in flight, each with its position and what it has read
    saves,          \* sessions: the save calls made so far, in the order they ran
    mig,            \* migrate_to_silky.py: the position of main(), its arguments and locals, and the project it runs on
    rel,            \* release.py: the position of main(), its arguments, the commands it has run and what it printed
    cleardb         \* clear_db.py: the rows of the four models, the profiler files, the setting, and the last request served

fpVars   == <<tokens, fp>>
npVars   == <<queries, threshold, np_result>>
pctVars  == <<sorted_data, p, pct>>
histVars == <<time_taken, rt_hist>>
reqVars  == <<session, request_sort, request, previous_session, response>>
sortVars == <<table, sort_list, sorted_rows>>
objVars  == <<objects>>
aggVars  == <<records, report>>
sumVars  == <<summary_filters, summary>>
sessVars == <<sessions, callers, saves>>
migVars  == <<mig>>
relVars  == <<rel>>
clrVars  == <<cleardb>>
vars     == <<fpVars, npVars, pctVars, histVars, reqVars, sortVars, objVars, aggVars, sumVars, sessVars, migVars, relVars, clrVars>>

(* The value of a result variable before its operation has run; a result is
   a record with run = TRUE. *)
NotRun == [run |-> FALSE]

(* A nullable column holds NULL or Some(v). *)
NULL    == <<>>
Some(v) == <<v>>
Val(x)  == x[1]

(* The idle values of each component's variables. *)
FpIdle   == tokens = <<>> /\ fp = NotRun
NpIdle   == queries = <<>> /\ threshold = 0 /\ np_result = NotRun
PctIdle  == sorted_data = <<>> /\ p = 0 /\ pct = NotRun
HistIdle == time_taken = <<>> /\ rt_hist = NotRun
ReqIdle  == session = <<>> /\ request_sort = NULL /\ request = NotRun
            /\ previous_session = <<>> /\ response = NotRun
SortIdle == table = <<>> /\ sort_list = <<>> /\ sorted_rows = NotRun
ObjIdle  == objects = NotRun
ClrIdle  == cleardb = NotRun
RelIdle  == rel = NotRun
MigIdle  == mig = NotRun
SessIdle == sessions = <<>> /\ callers = <<>> /\ saves = <<>>
SumIdle  == summary_filters = <<>> /\ summary = NotRun
AggIdle  == records = <<>> /\ report = NotRun

(***************************************************************************)
(* Sequences                                                               *)
(***************************************************************************)
Range(s) == {s[i] : i \in DOMAIN s}

RECURSIVE Concat(_)
Concat(ss) == IF ss = <<>> THEN <<>> ELSE Head(ss) \o Concat(Tail(ss))

(* s occurs in t as a contiguous run. *)
Occurs(s, t) ==
    \E i \in 0..(Len(t) - Len(s)) : \A k \in 1..Len(s) : t[i + k] = s[k]

(***************************************************************************)
(* Characters, as Python's re and str see them (ASCII).                    *)
(***************************************************************************)
UpperChars == <<"A","B","C","D","E","F","G","H","I","J","K","L","M",
                "N","O","P","Q","R","S","T","U","V","W","X","Y","Z">>
LowerChars == <<"a","b","c","d","e","f","g","h","i","j","k","l","m",
                "n","o","p","q","r","s","t","u","v","w","x","y","z">>
DigitChars == {"0","1","2","3","4","5","6","7","8","9"}
SpaceChars == {" ", "\t", "\n", "\r", "\f"}
WordChars  == Range(UpperChars) \cup Range(LowerChars) \cup DigitChars \cup {"_"}
Quote      == "'"
DQuote     == "\""
Placeholder == "?"

(***************************************************************************)
(* fingerprint_query                                                       *)
(***************************************************************************)
(* _RE_STRINGS.sub('?', s), from position i on: a quote with a later quote *)
(* starts a match that ends at the nearest later quote.                    *)
RECURSIVE RE_STRINGS_from(_, _)
RE_STRINGS_from(s, i) ==
    IF i > Len(s) THEN <<>>
    ELSE IF s[i] = Quote /\ \E j \in (i+1)..Len(s) : s[j] = Quote
         THEN LET j == CHOOSE j \in (i+1)..Len(s) :
                           s[j] = Quote /\ \A k \in (i+1)..(j-1) : s[k] # Quote
              IN  <<Placeholder>> \o RE_STRINGS_from(s, j + 1)
         ELSE <<s[i]>> \o RE_STRINGS_from(s, i + 1)

RE_STRINGS_sub(s) == RE_STRINGS_from(s, 1)

(* The end of the maximal run of digits that starts at i. *)
RECURSIVE DigitRunEnd(_, _)
DigitRunEnd(s, i) ==
    IF i < Len(s) /\ s[i + 1] \in DigitChars THEN DigitRunEnd(s, i + 1) ELSE i

(* \b at the gap before position i (1..Len(s)+1): exactly one side is a    *)
(* word character.                                                         *)
WordBoundary(s, i) ==
    LET before == i > 1 /\ s[i - 1] \in WordChars
        after  == i <= Len(s) /\ s[i] \in WordChars
    IN  before # after

(* _RE_NUMBERS.sub('?', s), from position i on: \d+ is greedy and a shorter *)
(* run never ends at a \b, so a match is a whole run of digits with a \b on *)
(* both sides.                                                              *)
RECURSIVE RE_NUMBERS_from(_, _)
RE_NUMBERS_from(s, i) ==
    IF i > Len(s) THEN <<>>
    ELSE IF s[i] \in DigitChars /\ WordBoundary(s, i)
            /\ WordBoundary(s, DigitRunEnd(s, i) + 1)
         THEN <<Placeholder>> \o RE_NUMBERS_from(s, DigitRunEnd(s, i) + 1)
         ELSE <<s[i]>> \o RE_NUMBERS_from(s, i + 1)

RE_NUMBERS_sub(s) == RE_NUMBERS_from(s, 1)

(* _RE_WHITESPACE.sub(' ', s): every maximal run of whitespace becomes one *)
(* space.                                                                  *)
RECURSIVE RE_WHITESPACE_from(_, _)
RE_WHITESPACE_from(s, i) ==
    IF i > Len(s) THEN <<>>
    ELSE IF s[i] \in SpaceChars
         THEN IF i > 1 /\ s[i - 1] \in SpaceChars
              THEN RE_WHITESPACE_from(s, i + 1)
              ELSE <<" ">> \o RE_WHITESPACE_from(s, i + 1)
         ELSE <<s[i]>> \o RE_WHITESPACE_from(s, i + 1)

RE_WHITESPACE_sub(s) == RE_WHITESPACE_from(s, 1)

(* str.strip() *)
RECURSIVE lstrip(_)
lstrip(s) == IF s # <<>> /\ Head(s) \in SpaceChars THEN lstrip(Tail(s)) ELSE s

RECURSIVE rstrip(_)
rstrip(s) ==
    IF s # <<>> /\ s[Len(s)] \in SpaceChars
    THEN rstrip(SubSeq(s, 1, Len(s) - 1)) ELSE s

strip(s) == rstrip(lstrip(s))

(* str.lower() *)
LowerChar(c) ==
    IF c \in Range(UpperChars)
    THEN LowerChars[CHOOSE i \in DOMAIN UpperChars : UpperChars[i] = c]
    ELSE c

lower(s) == [i \in DOMAIN s |-> LowerChar(s[i])]

(* fingerprint_query without the lower-casing. *)
fingerprint_query_no_lower(sql) ==
    LET s1 == RE_STRINGS_sub(sql)
        s2 == RE_NUMBERS_sub(s1)
    IN  strip(RE_WHITESPACE_sub(s2))

fingerprint_query(sql) ==
    LET s1 == RE_STRINGS_sub(sql)
        s2 == RE_NUMBERS_sub(s1)
    IN  lower(strip(RE_WHITESPACE_sub(s2)))


(***************************************************************************)
(* SpecFingerprint: two SQL texts are written token by token.  A fixed     *)
(* character is the same in both texts; a string literal, a numeric        *)
(* constant and a run of whitespace may differ between them.  Text a       *)
(* always takes the first choice, text b any choice.                       *)
(***************************************************************************)
MaxTokens == 3

FixedChars    == {"s", "T", "=", "7", DQuote}
LiteralA      == <<"x">>
LiteralValues == {<<"x">>, <<>>, <<"y", " ", "9">>, <<"i", Quote, Quote, "s">>}
NumberA       == <<"5">>
NumberValues  == {<<"5">>, <<"4", "2">>, <<"1", ".", "5">>}
SpaceA        == <<" ">>
SpaceRuns     == {<<" ">>, <<" ", " ">>, <<"\t">>, <<"\n", " ">>}

Token(kind, a, b) == [kind |-> kind, a |-> a, b |-> b]

sqlA == Concat([i \in DOMAIN tokens |-> tokens[i].a])
sqlB == Concat([i \in DOMAIN tokens |-> tokens[i].b])

LastKind == IF tokens = <<>> THEN "none" ELSE tokens[Len(tokens)].kind
LastIsWord == sqlA # <<>> /\ sqlA[Len(sqlA)] \in WordChars

FpInit == /\ tokens = <<>>
          /\ fp = NotRun
          /\ NpIdle /\ PctIdle /\ HistIdle /\ ReqIdle /\ SortIdle /\ ObjIdle /\ AggIdle /\ SumIdle /\ SessIdle /\ MigIdle /\ RelIdle /\ ClrIdle

FpOthers == <<npVars, pctVars, histVars, reqVars, sortVars, objVars, aggVars, sumVars, sessVars, migVars, relVars, clrVars>>

CanAppend == fp = NotRun /\ Len(tokens) < MaxTokens

AppendFixed(c) ==
    /\ CanAppend
    /\ ~(c \in WordChars /\ LastKind = "number")
    /\ tokens' = Append(tokens, Token("fixed", <<c>>, <<c>>))
    /\ UNCHANGED <<fp, FpOthers>>

(* A literal does not touch the literal before it: 'x''x' is one literal. *)
AppendLiteral(v) ==
    /\ CanAppend
    /\ LastKind # "literal"
    /\ tokens' = Append(tokens, Token("literal",
                            <<Quote>> \o LiteralA \o <<Quote>>,
                            <<Quote>> \o v \o <<Quote>>))
    /\ UNCHANGED <<fp, FpOthers>>

(* A numeric constant does not touch a letter, a digit or an underscore. *)
AppendNumber(n) ==
    /\ CanAppend
    /\ ~LastIsWord
    /\ tokens' = Append(tokens, Token("number", NumberA, n))
    /\ UNCHANGED <<fp, FpOthers>>

AppendSpace(w) ==
    /\ CanAppend
    /\ tokens' = Append(tokens, Token("space", SpaceA, w))
    /\ UNCHANGED <<fp, FpOthers>>

Fingerprint ==
    /\ fp = NotRun
    /\ fp' = [run |-> TRUE, a |-> fingerprint_query(sqlA),
                            b |-> fingerprint_query(sqlB)]
    /\ UNCHANGED <<tokens, FpOthers>>

FpNext == \/ \E c \in FixedChars : AppendFixed(c)
          \/ \E v \in LiteralValues : AppendLiteral(v)
          \/ \E n \in NumberValues : AppendNumber(n)
          \/ \E w \in SpaceRuns : AppendSpace(w)
          \/ Fingerprint

SpecFingerprint == FpInit /\ [][FpNext]_vars

(* C3: two SQL texts that differ only in the values of their string        *)
(* literals, in their numeric constants and in their whitespace have the   *)
(* same fingerprint.                                                       *)
C3_SameFingerprint == fp.run => fp.a = fp.b

(* The double-quoted identifiers of s: from an opening double quote (an    *)
(* even number of double quotes before it) to the next double quote.       *)
IsIdentifier(s, i, j) ==
    /\ i < j
    /\ s[i] = DQuote /\ s[j] = DQuote
    /\ \A k \in (i+1)..(j-1) : s[k] # DQuote
    /\ Cardinality({k \in 1..(i-1) : s[k] = DQuote}) % 2 = 0

(* C4: every double-quoted identifier of the input appears unchanged in    *)
(* the fingerprint.                                                        *)
C4_IdentifiersUntouched ==
    fp.run =>
        \A i, j \in DOMAIN sqlA :
            IsIdentifier(sqlA, i, j) => Occurs(SubSeq(sqlA, i, j), fp.a)


(***************************************************************************)
(* SpecIdempotence: an ASCII text is typed character by character, with    *)
(* no regard for SQL, and is fingerprinted, and the fingerprint is         *)
(* fingerprinted again.                                                    *)
(***************************************************************************)
MaxChars == 5

AsciiChars == {"S", "7", "_", Quote, " ", "\n", "."}

TypeChar(c) ==
    /\ fp = NotRun
    /\ Len(tokens) < MaxChars
    /\ tokens' = Append(tokens, Token("fixed", <<c>>, <<c>>))
    /\ UNCHANGED <<fp, FpOthers>>

FingerprintTwice ==
    /\ fp = NotRun
    /\ fp' = [run |-> TRUE, a |-> fingerprint_query(sqlA),
                            b |-> fingerprint_query(fingerprint_query(sqlA))]
    /\ UNCHANGED <<tokens, FpOthers>>

IdemNext == \/ \E c \in AsciiChars : TypeChar(c)
            \/ FingerprintTwice

SpecIdempotence == FpInit /\ [][IdemNext]_vars

(* A whole run of digits of s with a word boundary on both sides. *)
StandaloneInteger(s) ==
    \E i \in DOMAIN s :
        /\ s[i] \in DigitChars
        /\ WordBoundary(s, i)
        /\ WordBoundary(s, DigitRunEnd(s, i) + 1)

(* C34: the fingerprint of a fingerprint is that fingerprint; a            *)
(* fingerprint holds at most one single quote, no standalone integer, no   *)
(* upper-case letter and no whitespace but single spaces between other     *)
(* characters.                                                             *)
C34_FingerprintIdempotent ==
    fp.run =>
        /\ fp.b = fp.a
        /\ Cardinality({i \in DOMAIN fp.a : fp.a[i] = Quote}) <= 1
        /\ ~StandaloneInteger(fp.a)
        /\ \A i \in DOMAIN fp.a :
              /\ fp.a[i] \notin Range(UpperChars)
              /\ fp.a[i] \in SpaceChars =>
                     /\ fp.a[i] = " "
                     /\ 1 < i /\ i < Len(fp.a)
                     /\ fp.a[i + 1] \notin SpaceChars

(* A text with three quotes and an integer: 'S''7 gives ?'? with the       *)
(* third quote left, and gives it again.                                   *)
C34_Witness ==
    /\ fp.run
    /\ sqlA = <<Quote, "S", Quote, Quote, "7">>
    /\ fp.a = <<"?", Quote, "?">>
    /\ fp.b = fp.a

(* S \n7. gives s ?. and gives it again. *)
C34_WitnessNumber ==
    /\ fp.run
    /\ sqlA = <<"S", " ", "\n", "7", ".">>
    /\ fp.a = <<"s", " ", "?", ".">>
    /\ fp.b = fp.a

(***************************************************************************)
(* detect_n_plus_one                                                       *)
(***************************************************************************)
(* buckets.setdefault(fingerprint_query(q.query), []).append(q): a dict    *)
(* keeps its keys in insertion order, so buckets is the sequence of        *)
(* (fingerprint, queries) in the order the fingerprints were first seen.   *)
setdefault_append(buckets, q) ==
    LET f == fingerprint_query(q.query)
    IN  IF \E k \in DOMAIN buckets : buckets[k].fingerprint = f
        THEN [k \in DOMAIN buckets |->
                 IF buckets[k].fingerprint = f
                 THEN [buckets[k] EXCEPT !.queries = Append(@, q)]
                 ELSE buckets[k]]
        ELSE Append(buckets, [fingerprint |-> f, queries |-> <<q>>])

RECURSIVE fill_buckets(_, _)
fill_buckets(buckets, qs) ==
    IF qs = <<>> THEN buckets
    ELSE fill_buckets(setdefault_append(buckets, Head(qs)), Tail(qs))

(* A group represented by the last of its queries. *)
NPlusOneGroup_last(fingerprint, qs) ==
    [fingerprint |-> fingerprint, queries |-> qs, count |-> Len(qs),
     representative |-> qs[Len(qs)]]

NPlusOneGroup(fingerprint, qs) ==
    [fingerprint |-> fingerprint, queries |-> qs, count |-> Len(qs),
     representative |-> qs[1]]

(* A result that collects the ids of its first group only. *)
NPlusOneResult_first_group(groups) ==
    [run |-> TRUE,
     groups |-> groups,
     flagged_query_ids |->
         IF groups = <<>> THEN {}
         ELSE {groups[1].queries[i].pk : i \in DOMAIN groups[1].queries},
     has_n_plus_one |-> groups # <<>>]

NPlusOneResult(groups) ==
    [run |-> TRUE,
     groups |-> groups,
     flagged_query_ids |->
         UNION {{groups[g].queries[i].pk : i \in DOMAIN groups[g].queries} :
                    g \in DOMAIN groups},
     has_n_plus_one |-> groups # <<>>]

RECURSIVE to_groups(_)
to_groups(buckets) ==
    IF buckets = <<>> THEN <<>>
    ELSE <<NPlusOneGroup(Head(buckets).fingerprint, Head(buckets).queries)>>
         \o to_groups(Tail(buckets))

flagged_strict(buckets, th) ==
    to_groups(SelectSeq(buckets, LAMBDA b : Len(b.queries) > th))

(* [NPlusOneGroup(fp, qs) for fp, qs in buckets.items() if len(qs) >= threshold] *)
flagged_groups(buckets, th) ==
    to_groups(SelectSeq(buckets, LAMBDA b : Len(b.queries) >= th))

(* g put into a list sorted by non-increasing count, after (stable) or     *)
(* before (not stable) the groups of its own count.                        *)
insert_by_count(sorted, g, stable) ==
    LET ahead == {k \in DOMAIN sorted :
                     IF stable THEN sorted[k].count >= g.count
                               ELSE sorted[k].count > g.count}
        n == Cardinality(ahead)
    IN  SubSeq(sorted, 1, n) \o <<g>> \o SubSeq(sorted, n + 1, Len(sorted))

RECURSIVE sort_from(_, _, _)
sort_from(sorted, groups, stable) ==
    IF groups = <<>> THEN sorted
    ELSE sort_from(insert_by_count(sorted, Head(groups), stable),
                   Tail(groups), stable)

sort_reversed_ties(groups) == sort_from(<<>>, groups, FALSE)

(* flagged.sort(key=lambda g: g.count, reverse=True): list.sort is stable, *)
(* with reverse=True too.                                                  *)
sort_by_count_reverse(groups) == sort_from(<<>>, groups, TRUE)

detect_n_plus_one(qs, th) ==
    NPlusOneResult(sort_by_count_reverse(flagged_groups(fill_buckets(<<>>, qs), th)))

(***************************************************************************)
(* SpecNPlusOne: a threshold is chosen, queries are captured one by one,   *)
(* and the detector runs on them.                                          *)
(***************************************************************************)
MaxQueries   == 4
MaxThreshold == 3

SqlTexts == { <<"a", "=", "1">>, <<"a", "=", "2", "2">>, <<"b">>,
              <<" ", "B">>, <<"c">> }

NpOthers == <<fpVars, pctVars, histVars, reqVars, sortVars, objVars, aggVars, sumVars, sessVars, migVars, relVars, clrVars>>

NpInit == /\ queries = <<>>
          /\ threshold \in 0..MaxThreshold
          /\ np_result = NotRun
          /\ FpIdle /\ PctIdle /\ HistIdle /\ ReqIdle /\ SortIdle /\ ObjIdle /\ AggIdle /\ SumIdle /\ SessIdle /\ MigIdle /\ RelIdle /\ ClrIdle

CaptureQuery(sql) ==
    /\ ~np_result.run
    /\ Len(queries) < MaxQueries
    /\ queries' = Append(queries, [pk |-> Len(queries) + 1, query |-> sql])
    /\ UNCHANGED <<threshold, np_result, NpOthers>>

Detect ==
    /\ ~np_result.run
    /\ np_result' = detect_n_plus_one(queries, threshold)
    /\ UNCHANGED <<queries, threshold, NpOthers>>

NpNext == \/ \E sql \in SqlTexts : CaptureQuery(sql)
          \/ Detect

SpecNPlusOne == NpInit /\ [][NpNext]_vars

(* The fingerprints of the input, the input positions of a fingerprint and *)
(* the position at which it is first met.                                  *)
InputFingerprints == {fingerprint_query(queries[i].query) : i \in DOMAIN queries}
Members(f) == {i \in DOMAIN queries : fingerprint_query(queries[i].query) = f}
FirstSeen(f) == CHOOSE i \in Members(f) : \A k \in Members(f) : i <= k
GroupsOf(f) == {g \in DOMAIN np_result.groups : np_result.groups[g].fingerprint = f}

(* C1: the result holds a group for a fingerprint of the input exactly     *)
(* when at least threshold queries have that fingerprint; the group is the *)
(* only one of its fingerprint and counts those queries.  Three queries of *)
(* one fingerprint at threshold 3 give one group of count 3, two give no   *)
(* group.                                                                  *)
C1_GroupIffThreshold ==
    np_result.run =>
        /\ \A f \in InputFingerprints :
              /\ (GroupsOf(f) # {}) <=> (Cardinality(Members(f)) >= threshold)
              /\ Cardinality(GroupsOf(f)) <= 1
              /\ \A g \in GroupsOf(f) :
                    np_result.groups[g].count = Cardinality(Members(f))
        /\ \A g \in DOMAIN np_result.groups :
              np_result.groups[g].fingerprint \in InputFingerprints
        /\ (threshold = 3 /\ Cardinality(InputFingerprints) = 1) =>
              /\ Len(queries) = 3 =>
                    /\ Len(np_result.groups) = 1
                    /\ np_result.groups[1].count = 3
              /\ Len(queries) = 2 => np_result.groups = <<>>

(* Three queries that differ in their literals share one fingerprint and   *)
(* are flagged at threshold 3.                                             *)
C1_Witness ==
    /\ np_result.run
    /\ threshold = 3
    /\ Len(queries) = 3
    /\ queries[1].query # queries[2].query
    /\ Len(np_result.groups) = 1
    /\ np_result.groups[1].count = 3

(* C22: every group of the result holds at least one query and counts its *)
(* queries; its queries are the queries of the input with its fingerprint, *)
(* in the order of the input, and its representative is the first of them. *)
C22_GroupWellFormed ==
    np_result.run =>
        \A g \in DOMAIN np_result.groups :
            LET G == np_result.groups[g]
            IN  /\ Len(G.queries) >= 1
                /\ G.count = Len(G.queries)
                /\ \A i \in DOMAIN G.queries :
                      /\ G.queries[i].pk \in Members(G.fingerprint)
                      /\ G.queries[i] = queries[G.queries[i].pk]
                /\ \A i, j \in DOMAIN G.queries :
                      i < j => G.queries[i].pk < G.queries[j].pk
                /\ G.representative = G.queries[1]
                /\ G.representative = queries[FirstSeen(G.fingerprint)]

(* A group of the first and the third query of the input, with a query of  *)
(* another fingerprint between them.                                       *)
C22_Witness ==
    /\ np_result.run
    /\ Len(queries) >= 3
    /\ \E g \in DOMAIN np_result.groups :
           /\ np_result.groups[g].queries = <<queries[1], queries[3]>>
           /\ np_result.groups[g].representative = queries[1]

(* The input positions of the queries whose fingerprint is met at least    *)
(* threshold times.                                                        *)
FlaggedPositions ==
    {i \in DOMAIN queries :
        Cardinality(Members(fingerprint_query(queries[i].query))) >= threshold}

(* C23: flagged_query_ids holds the ids of the queries of the flagged      *)
(* groups and no other id, and has_n_plus_one is true exactly when a group *)
(* was flagged.                                                            *)
C23_FlaggedIds ==
    np_result.run =>
        /\ np_result.flagged_query_ids = {queries[i].pk : i \in FlaggedPositions}
        /\ \A i \in DOMAIN queries \ FlaggedPositions :
               queries[i].pk \notin np_result.flagged_query_ids
        /\ np_result.has_n_plus_one <=> (np_result.groups # <<>>)
        /\ np_result.has_n_plus_one <=> (FlaggedPositions # {})

(* A flagged group of the first and the last of four queries, and two     *)
(* queries between them that are not flagged.                              *)
C23_Witness ==
    /\ np_result.run
    /\ threshold = 2
    /\ Len(queries) = 4
    /\ np_result.has_n_plus_one
    /\ np_result.flagged_query_ids = {queries[1].pk, queries[4].pk}

(* Two flagged groups, with the ids of both. *)
C23_WitnessTwoGroups ==
    /\ np_result.run
    /\ threshold = 2
    /\ Len(np_result.groups) = 2
    /\ Cardinality(np_result.flagged_query_ids) = 4

(* No group is flagged. *)
C23_WitnessNone ==
    /\ np_result.run
    /\ Len(queries) >= 2
    /\ ~np_result.has_n_plus_one
    /\ np_result.flagged_query_ids = {}

(* C2: the groups come in non-increasing count, and groups of equal count  *)
(* in the order in which their fingerprints were first met in the input.   *)
C2_SortedByCountStable ==
    np_result.run =>
        \A g, h \in DOMAIN np_result.groups :
            g < h =>
                /\ np_result.groups[g].count >= np_result.groups[h].count
                /\ np_result.groups[g].count = np_result.groups[h].count =>
                      FirstSeen(np_result.groups[g].fingerprint)
                          < FirstSeen(np_result.groups[h].fingerprint)

(* Three groups, the largest of them met second, the other two tied. *)
C2_Witness ==
    /\ np_result.run
    /\ Len(np_result.groups) = 3
    /\ np_result.groups[1].count > np_result.groups[2].count
    /\ np_result.groups[2].count = np_result.groups[3].count
    /\ FirstSeen(np_result.groups[2].fingerprint)
           < FirstSeen(np_result.groups[1].fingerprint)


(***************************************************************************)
(* _percentile                                                             *)
(***************************************************************************)
(* The denominator of p / 100.0.  With an integer rank p the index         *)
(* p/100*(n-1), its fraction and the interpolated value are multiples of   *)
(* 1/PctScale: a value is held as its numerator.                           *)
PctScale == 100

percentile_swapped(data, rank) ==
    LET n    == Len(data)
        idx  == rank * (n - 1)
        lo   == idx \div PctScale
        hi   == lo + 1
        frac == idx - lo * PctScale
    IN  IF n = 0 THEN 0
        ELSE IF hi >= n THEN data[n] * PctScale
        ELSE data[lo + 1] * frac + data[hi + 1] * (PctScale - frac)

(* idx, frac and the value returned are numerators over PctScale; lo and   *)
(* hi index from 0 as in the source, the sequence from 1.                  *)
percentile(data, rank) ==
    LET n    == Len(data)
        idx  == rank * (n - 1)
        lo   == idx \div PctScale
        hi   == lo + 1
        frac == idx - lo * PctScale
    IN  IF n = 0 THEN 0
        ELSE IF hi >= n THEN data[n] * PctScale
        ELSE data[lo + 1] * (PctScale - frac) + data[hi + 1] * frac

(***************************************************************************)
(* SpecPercentile: a rank is chosen, an ascending sample is built value by *)
(* value, and the percentile is taken.                                     *)
(***************************************************************************)
MaxSample    == 4
SampleValues == {-5, 10, 20, 30, 40}

PctOthers == <<fpVars, npVars, histVars, reqVars, sortVars, objVars, aggVars, sumVars, sessVars, migVars, relVars, clrVars>>

PctInit == /\ sorted_data = <<>>
           /\ p \in 0..PctScale
           /\ pct = NotRun
           /\ FpIdle /\ NpIdle /\ HistIdle /\ ReqIdle /\ SortIdle /\ ObjIdle /\ AggIdle /\ SumIdle /\ SessIdle /\ MigIdle /\ RelIdle /\ ClrIdle

AppendSample(v) ==
    /\ ~pct.run
    /\ Len(sorted_data) < MaxSample
    /\ IF sorted_data = <<>> THEN TRUE ELSE sorted_data[Len(sorted_data)] <= v
    /\ sorted_data' = Append(sorted_data, v)
    /\ UNCHANGED <<p, pct, PctOthers>>

Percentile ==
    /\ ~pct.run
    /\ pct' = [run |-> TRUE, value |-> percentile(sorted_data, p)]
    /\ UNCHANGED <<sorted_data, p, PctOthers>>

PctNext == \/ \E v \in SampleValues : AppendSample(v)
           \/ Percentile

SpecPercentile == PctInit /\ [][PctNext]_vars

(* floor(p/100 * (n-1)): the k with k <= p/100*(n-1) < k+1. *)
FloorIndex(n) ==
    CHOOSE k \in 0..n : /\ k * PctScale <= p * (n - 1)
                        /\ p * (n - 1) < (k + 1) * PctScale

FloatBits == 8
FracBits  == 12
FloatOne  == 2 ^ FracBits

(* The largest t with 2^t <= x, for x >= 1. *)
RECURSIVE floor_log2(_)
floor_log2(x) == IF x < 2 THEN 0 ELSE 1 + floor_log2(x \div 2)

(* num / den rounded to the nearest integer, ties to the even one. *)
round_half_even(num, den) ==
    LET k   == num \div den
        rem == num - k * den
    IN  IF 2 * rem > den THEN k + 1
        ELSE IF 2 * rem < den THEN k
        ELSE IF k % 2 = 0 THEN k ELSE k + 1

(* The float nearest to num / den (in units of 1/FloatOne). *)
float_round(num, den) ==
    LET q    == num \div den
        t    == IF q < 1 THEN 0 ELSE floor_log2(q)
        ulp  == IF t - FloatBits + 1 > 0 THEN 2 ^ (t - FloatBits + 1) ELSE 1
    IN  ulp * round_half_even(num, den * ulp)

float_of(num, den) == float_round(num * FloatOne, den)
float_mul(x, y)    == float_round(x * y, FloatOne)
float_add(x, y)    == float_round(x + y, 1)
float_sub(x, y)    == float_round(x - y, 1)

(* round(x, 2): the nearest hundredth, as a float. *)
float_round_2(x) == float_of(round_half_even(x * 100, FloatOne), 100)

(* _percentile, operation by operation; lo and hi index from 0 as in the   *)
(* source, the sequence from 1.                                            *)
float_percentile(data, rank) ==
    LET n    == Len(data)
        idx  == float_mul(float_of(rank, 100), (n - 1) * FloatOne)
        lo   == idx \div FloatOne
        hi   == lo + 1
        frac == float_sub(idx, lo * FloatOne)
    IN  IF n = 0 THEN 0
        ELSE IF hi >= n THEN data[n]
        ELSE float_add(float_mul(data[lo + 1], float_sub(FloatOne, frac)),
                       float_mul(data[hi + 1], frac))

(* {p: round(_percentile(times, p), 2) for p in [25, 50, 75, 95, 99]} *)
float_percentile_table(times) ==
    [rank \in {25, 50, 75, 95, 99} |-> float_round_2(float_percentile(times, rank))]

(***************************************************************************)
(* SpecFloatPercentile: a rank is chosen, an ascending sample of floats is *)
(* built value by value, and the percentile, the percentile of the next    *)
(* rank and the percentile table are taken.                                *)
(***************************************************************************)
FloatSamples == {float_of(165, 1000), float_of(11, 10), float_of(1675, 1000), float_of(3, 1)}

FloatInit == /\ sorted_data = <<>>
             /\ p \in 0..100
             /\ pct = NotRun
             /\ FpIdle /\ NpIdle /\ HistIdle /\ ReqIdle /\ SortIdle /\ ObjIdle /\ AggIdle /\ SumIdle /\ SessIdle /\ MigIdle /\ RelIdle /\ ClrIdle

AppendFloat(v) ==
    /\ ~pct.run
    /\ Len(sorted_data) < MaxSample
    /\ IF sorted_data = <<>> THEN TRUE ELSE sorted_data[Len(sorted_data)] <= v
    /\ sorted_data' = Append(sorted_data, v)
    /\ UNCHANGED <<p, pct, PctOthers>>

FloatPercentile ==
    /\ ~pct.run
    /\ pct' = [run |-> TRUE,
               value |-> float_percentile(sorted_data, p),
               above |-> float_percentile(sorted_data, IF p < 100 THEN p + 1 ELSE p),
               table |-> float_percentile_table(sorted_data)]
    /\ UNCHANGED <<sorted_data, p, PctOthers>>

FloatNext == \/ \E v \in FloatSamples : AppendFloat(v)
             \/ FloatPercentile

SpecFloatPercentile == FloatInit /\ [][FloatNext]_vars

(* C35, as stated: for a non-empty ascending sample the percentile lies     *)
(* between the first and the last element, is the first element at p = 0   *)
(* and the last at p = 100, does not decrease when p grows, and the        *)
(* percentile table is ascending: p25 <= p50 <= p75 <= p95 <= p99.         *)
C35_PercentileMonotone ==
    (pct.run /\ sorted_data # <<>>) =>
        /\ sorted_data[1] <= pct.value
        /\ pct.value <= sorted_data[Len(sorted_data)]
        /\ p = 0 => pct.value = sorted_data[1]
        /\ p = 100 => pct.value = sorted_data[Len(sorted_data)]
        /\ pct.value <= pct.above
        /\ pct.table[25] <= pct.table[50]
        /\ pct.table[50] <= pct.table[75]
        /\ pct.table[75] <= pct.table[95]
        /\ pct.table[95] <= pct.table[99]

(* What holds in floating point too: 0 for the empty sample, the first     *)
(* element at p = 0, the last at p = 100 and for a sample of one element.  *)
C35_EndpointsExact ==
    pct.run =>
        /\ sorted_data = <<>> => pct.value = 0
        /\ (sorted_data # <<>> /\ p = 0) => pct.value = sorted_data[1]
        /\ (sorted_data # <<>> /\ p = 100) => pct.value = sorted_data[Len(sorted_data)]
        /\ Len(sorted_data) = 1 => pct.value = sorted_data[1]

(* A sample of equal values whose percentile is not that value. *)
C35_WitnessOutside ==
    /\ pct.run
    /\ Len(sorted_data) >= 2
    /\ sorted_data[1] = sorted_data[Len(sorted_data)]
    /\ pct.value # sorted_data[1]

(* A percentile table that is not ascending. *)
C35_WitnessTable ==
    /\ pct.run
    /\ sorted_data # <<>>
    /\ \E r, q \in {25, 50, 75, 95, 99} : r < q /\ pct.table[r] > pct.table[q]

(***************************************************************************)
(* SummaryView._response_time_histogram                                    *)
(***************************************************************************)
(* .filter(time_taken__isnull=False, time_taken__gte=0) *)
eligible_times(column) ==
    SelectSeq(column, LAMBDA t : t # NULL /\ Val(t) >= 0)

histogram_buckets ==
    << [label |-> "<50ms",     max |-> Some(50),   count |-> 0],
       [label |-> "50-100ms",  max |-> Some(100),  count |-> 0],
       [label |-> "100-200ms", max |-> Some(200),  count |-> 0],
       [label |-> "200-500ms", max |-> Some(500),  count |-> 0],
       [label |-> "500ms-1s",  max |-> Some(1000), count |-> 0],
       [label |-> ">1s",       max |-> NULL,       count |-> 0] >>

bucket_matches_le(b, t) == IF b.max = NULL THEN TRUE ELSE t <= Val(b.max)

(* b['max'] is None or t < b['max'] *)
bucket_matches(b, t) == IF b.max = NULL THEN TRUE ELSE t < Val(b.max)

count_time_no_break(buckets, t) ==
    [k \in DOMAIN buckets |->
        IF bucket_matches(buckets[k], t)
        THEN [buckets[k] EXCEPT !.count = @ + 1] ELSE buckets[k]]

(* for b in buckets: if ...: b['count'] += 1; break *)
count_time(buckets, t) ==
    [k \in DOMAIN buckets |->
        IF /\ bucket_matches(buckets[k], t)
           /\ \A j \in 1..(k - 1) : ~bucket_matches(buckets[j], t)
        THEN [buckets[k] EXCEPT !.count = @ + 1] ELSE buckets[k]]

RECURSIVE count_times(_, _)
count_times(buckets, times) ==
    IF times = <<>> THEN buckets
    ELSE count_times(count_time(buckets, Val(Head(times))), Tail(times))

response_time_histogram(column) ==
    LET buckets == count_times(histogram_buckets, eligible_times(column))
    IN  [k \in DOMAIN buckets |->
            [label |-> buckets[k].label, count |-> buckets[k].count]]

(***************************************************************************)
(* SpecHistogram: the Request table starts empty or with the five requests *)
(* of the documented sample, requests are recorded one by one, and the     *)
(* histogram is taken over the table.                                      *)
(***************************************************************************)
MaxRequests == 3

SampleTimes == <<Some(10), Some(60), Some(150), Some(600), Some(1500)>>
TimeValues  == {NULL} \cup {Some(t) : t \in {-1, 0, 49, 50, 99, 100, 200, 499,
                                             500, 999, 1000, 1500}}

HistOthers == <<fpVars, npVars, pctVars, reqVars, sortVars, objVars, aggVars, sumVars, sessVars, migVars, relVars, clrVars>>

HistInit == /\ time_taken \in {<<>>, SampleTimes}
            /\ rt_hist = NotRun
            /\ FpIdle /\ NpIdle /\ PctIdle /\ ReqIdle /\ SortIdle /\ ObjIdle /\ AggIdle /\ SumIdle /\ SessIdle /\ MigIdle /\ RelIdle /\ ClrIdle

Recorded == IF Len(time_taken) >= Len(SampleTimes)
               /\ SubSeq(time_taken, 1, Len(SampleTimes)) = SampleTimes
            THEN Len(time_taken) - Len(SampleTimes)
            ELSE Len(time_taken)

RecordRequest(t) ==
    /\ ~rt_hist.run
    /\ Recorded < MaxRequests
    /\ time_taken' = Append(time_taken, t)
    /\ UNCHANGED <<rt_hist, HistOthers>>

Histogram ==
    /\ ~rt_hist.run
    /\ rt_hist' = [run |-> TRUE, buckets |-> response_time_histogram(time_taken)]
    /\ UNCHANGED <<time_taken, HistOthers>>

HistNext == \/ \E t \in TimeValues : RecordRequest(t)
            \/ Histogram

SpecHistogram == HistInit /\ [][HistNext]_vars

(* The six labels with the range of each, lower bound included and upper   *)
(* bound excluded; the last range has no upper bound.                      *)
BucketLabels == <<"<50ms", "50-100ms", "100-200ms", "200-500ms", "500ms-1s", ">1s">>
BucketLower  == <<0, 50, 100, 200, 500, 1000>>
Eligible     == {i \in DOMAIN time_taken :
                    time_taken[i] # NULL /\ Val(time_taken[i]) >= 0}
InBucket(k)  == {i \in Eligible :
                    /\ BucketLower[k] <= Val(time_taken[i])
                    /\ k < Len(BucketLower) =>
                          Val(time_taken[i]) < BucketLower[k + 1]}

RECURSIVE SumCounts(_)
SumCounts(bs) == IF bs = <<>> THEN 0 ELSE Head(bs).count + SumCounts(Tail(bs))

(* C6: the histogram has the six buckets in order; every non-null,         *)
(* non-negative time is counted in the one bucket whose range              *)
(* [lower, upper) holds it, so a time equal to a bound is in the bucket    *)
(* above and times >= 1000 are in >1s; null and negative times are counted *)
(* nowhere, and the counts sum to the number of eligible times.            *)
C6_HistogramBuckets ==
    rt_hist.run =>
        /\ Len(rt_hist.buckets) = Len(BucketLabels)
        /\ \A k \in DOMAIN BucketLabels :
              /\ rt_hist.buckets[k].label = BucketLabels[k]
              /\ rt_hist.buckets[k].count = Cardinality(InBucket(k))
        /\ SumCounts(rt_hist.buckets) = Cardinality(Eligible)

(* A table with a null time, a negative time, and times on the bounds 50   *)
(* and 1000.                                                               *)
C6_Witness ==
    /\ rt_hist.run
    /\ NULL \in Range(time_taken)
    /\ Some(-1) \in Range(time_taken)
    /\ Some(50) \in Range(time_taken)
    /\ rt_hist.buckets[1].count = 0
    /\ rt_hist.buckets[2].count = 1
    /\ SumCounts(rt_hist.buckets) = 1

Counts == [k \in DOMAIN rt_hist.buckets |-> rt_hist.buckets[k].count]

(* C7, as claimed: the times [10, 60, 150, 600, 1500] give a count of 1 in *)
(* each of the five finite buckets.                                        *)
C7_OneInEachFiniteBucket ==
    (rt_hist.run /\ time_taken = SampleTimes) =>
        \A k \in 1..5 : rt_hist.buckets[k].count = 1

(* C7, amended: the times [10, 60, 150, 600, 1500] give a count of 1 in    *)
(* <50ms, 50-100ms, 100-200ms, 500ms-1s and >1s, and 0 in 200-500ms.       *)
C7_SampleCounts ==
    (rt_hist.run /\ time_taken = SampleTimes) =>
        Counts = <<1, 1, 1, 0, 1, 1>>

C7_Witness ==
    /\ rt_hist.run
    /\ time_taken = SampleTimes
    /\ rt_hist.buckets[6] = [label |-> ">1s", count |-> 1]


(***************************************************************************)
(* RequestsView.get and RequestsView.post                                  *)
(*                                                                         *)
(* A dict is a function from its keys; a QueryDict (request.GET,           *)
(* request.POST) is a dict from each key to its value.  The session holds  *)
(* the filter state under 'request_filters' (session) and the sort list    *)
(* under 'request_sort' (request_sort).                                    *)
(***************************************************************************)
EmptyDict == <<>>

(* {**a, **b} *)
dict_merge_drop_first(a, b) == b

dict_merge(a, b) ==
    [k \in DOMAIN a \cup DOMAIN b |-> IF k \in DOMAIN b THEN b[k] ELSE a[k]]

(* {k: v for k, v in d.items() if k in keys} *)
dict_restrict(d, keys) == [k \in DOMAIN d \cap keys |-> d[k]]

(* d.get(k, default) *)
dict_get(d, k, default) == IF k \in DOMAIN d THEN d[k] ELSE default

DEFAULT_SORT_LIST == <<[field |-> "start_time", dir |-> "DESC"]>>
default_order_by  == "start_time"
default_order_dir == "DESC"

(* ['show', 'order_by', 'order_dir', 'view_style'] *)
non_filter_keys == {"show", "order_by", "order_dir", "view_style"}

clear_keys_with_order == {"show", "view_style", "order_by", "order_dir"}

(* ['show', 'view_style'], the keys a clear_filters POST retains *)
clear_keys == {"show", "view_style"}

(* The POST keys of the filter form, the keys k with k.startswith('filter-'). *)
FilterIdents  == {"1", "2"}
FilterTypKey(ident)   == IF ident = "1" THEN "filter-1-typ" ELSE "filter-2-typ"
FilterValueKey(ident) == IF ident = "1" THEN "filter-1-value" ELSE "filter-2-value"
FilterFormKeys == {FilterTypKey(i) : i \in FilterIdents}
                      \cup {FilterValueKey(i) : i \in FilterIdents}
startswith_filter(k) == k \in FilterFormKeys

(* json.loads on the payloads the model submits: a list, the empty list,   *)
(* JSON that is not a list, and text that is not JSON (ValueError).        *)
JsonSortList  == "[{\"field\": \"path\", \"dir\": \"ASC\"}]"
JsonEmptyList == "[]"
JsonObject    == "{}"
JsonInvalid   == "oops"
JsonBadList   == "[{\"dir\": \"sideways\"}]"
json_loads(text) ==
    CASE text = JsonSortList  -> [ok |-> TRUE, list |-> TRUE,
                                  value |-> <<[field |-> "path", dir |-> "ASC"]>>]
      [] text = JsonEmptyList -> [ok |-> TRUE, list |-> TRUE, value |-> <<>>]
      [] text = JsonBadList   -> [ok |-> TRUE, list |-> TRUE,
                                  value |-> <<[dir |-> "sideways"]>>]
      [] text = JsonObject    -> [ok |-> TRUE, list |-> FALSE, value |-> <<>>]
      [] OTHER                -> [ok |-> FALSE, list |-> FALSE, value |-> <<>>]

(* filters_from_request(request), each filter as its as_dict(): a filter   *)
(* for every ident of the form with a typ and a non-blank value.           *)
filters_from_request(POST) ==
    LET idents == {i \in FilterIdents :
                      /\ FilterTypKey(i) \in DOMAIN POST
                      /\ FilterValueKey(i) \in DOMAIN POST
                      /\ POST[FilterValueKey(i)] # ""}
    IN  [i \in idents |-> [typ |-> POST[FilterTypKey(i)],
                           value |-> POST[FilterValueKey(i)]]]

(* get() saving any list that sort_criteria decodes to, the empty one too. *)
get_sort_saves_empty(GET, stored) ==
    IF dict_get(GET, "sort_criteria", "") # ""
    THEN LET parsed == json_loads(GET["sort_criteria"])
         IN  IF parsed.ok /\ parsed.list
             THEN Some(parsed.value) ELSE stored
    ELSE IF "order_by" \in DOMAIN GET \/ "order_dir" \in DOMAIN GET
    THEN Some(<<[field |-> dict_get(GET, "order_by", default_order_by),
                 dir   |-> dict_get(GET, "order_dir", default_order_dir)]>>)
    ELSE stored

(* The sort list in the session after the sort_criteria / order_by part of *)
(* get().                                                                  *)
get_sort(GET, stored) ==
    IF dict_get(GET, "sort_criteria", "") # ""
    THEN LET parsed == json_loads(GET["sort_criteria"])
         IN  IF parsed.ok /\ parsed.list /\ parsed.value # <<>>
             THEN Some(parsed.value) ELSE stored
    ELSE IF "order_by" \in DOMAIN GET \/ "order_dir" \in DOMAIN GET
    THEN Some(<<[field |-> dict_get(GET, "order_by", default_order_by),
                 dir   |-> dict_get(GET, "order_dir", default_order_dir)]>>)
    ELSE stored

(* The filter state get() saves when request.GET is not empty. *)
get_filters(GET, stored) ==
    LET submitted == dict_restrict(GET, non_filter_keys)
        filters   == dict_merge(stored, submitted)
    IN  IF "per_page" \in DOMAIN GET /\ "show" \notin DOMAIN GET
        THEN dict_merge(filters, [k \in {"show"} |-> GET["per_page"]])
        ELSE filters

post_sort_any_json(POST, stored) ==
    IF dict_get(POST, "sort_criteria", "") # ""
    THEN LET parsed == json_loads(POST["sort_criteria"])
         IN  IF parsed.ok
             THEN Some(IF parsed.value # <<>> THEN parsed.value
                       ELSE DEFAULT_SORT_LIST)
             ELSE stored
    ELSE stored

(* The sort list in the session after the sort_criteria part of post(). *)
post_sort(POST, stored) ==
    IF dict_get(POST, "sort_criteria", "") # ""
    THEN LET parsed == json_loads(POST["sort_criteria"])
         IN  IF parsed.ok /\ parsed.list
             THEN Some(IF parsed.value # <<>> THEN parsed.value
                       ELSE DEFAULT_SORT_LIST)
             ELSE stored
    ELSE stored

clear_filters_keep_order(previous) == dict_restrict(previous, clear_keys_with_order)

(* {k: v for k, v in previous_session.items() if k in ['show', 'view_style']} *)
clear_filters(previous) == dict_restrict(previous, clear_keys)

(* post() with a filter form that is merged into the previous state. *)
post_filters_keep_predicates(POST, previous) ==
    IF "clear_filters" \in DOMAIN POST
    THEN clear_filters(previous)
    ELSE IF \E k \in DOMAIN POST : startswith_filter(k)
    THEN dict_merge(previous, filters_from_request(POST))
    ELSE dict_merge(previous, dict_restrict(POST, non_filter_keys))

(* The filter state post() saves. *)
post_filters(POST, previous) ==
    IF "clear_filters" \in DOMAIN POST
    THEN clear_filters(previous)
    ELSE IF \E k \in DOMAIN POST : startswith_filter(k)
    THEN dict_merge(dict_restrict(previous, non_filter_keys),
                    filters_from_request(POST))
    ELSE dict_merge(previous, dict_restrict(POST, non_filter_keys))


(***************************************************************************)
(* _apply_sort                                                             *)
(*                                                                         *)
(* A queryset is its rows, the ordering its last order_by call asked for,  *)
(* and the arguments of every order_by call made on it.  An order field is *)
(* <<prefix, field>> for f'{prefix}{field}'.                               *)
(***************************************************************************)
SORT_OPTIONS == {"start_time", "path", "num_sql_queries", "time_taken", "db_time"}

all_objects(rows) == [rows |-> Range(rows), ordering |-> <<>>, calls |-> <<>>]

(* query_set.order_by(fields...): the ordering asked for last replaces the   *)
(* one before.                                                             *)
order_by(query_set, fields) ==
    [query_set EXCEPT !.ordering = fields, !.calls = Append(@, fields)]

(* The additional filters letting negative values through. *)
additional_query_filter_keeps_negative(field, query_set) ==
    CASE field = "time_taken" ->
            [query_set EXCEPT !.rows = {r \in @ : r.time_taken # NULL}]
      [] field = "db_time" ->
            [query_set EXCEPT !.rows = {r \in @ : r.db_time # NULL}]
      [] OTHER -> query_set

(* SORT_OPTIONS[field]['additional_query_filter'](query_set), when not None *)
additional_query_filter(field, query_set) ==
    CASE field = "time_taken" ->
            [query_set EXCEPT !.rows =
                {r \in @ : r.time_taken # NULL /\ Val(r.time_taken) >= 0}]
      [] field = "db_time" ->
            [query_set EXCEPT !.rows =
                {r \in @ : r.db_time # NULL /\ Val(r.db_time) >= 0}]
      [] OTHER -> query_set

item_field(item) == dict_get(item, "field", "start_time")
item_dir(item)   == dict_get(item, "dir", "DESC")
order_field(item) ==
    <<IF item_dir(item) = "DESC" THEN "-" ELSE "", item_field(item)>>

sort_item_order_each(acc, item) ==
    IF item_field(item) \notin SORT_OPTIONS THEN acc
    ELSE [query_set |-> order_by(additional_query_filter(item_field(item),
                                                         acc.query_set),
                                 <<order_field(item)>>),
          order_fields |-> <<>>]

(* The body of the loop over sort_list. *)
sort_item(acc, item) ==
    IF item_field(item) \notin SORT_OPTIONS THEN acc
    ELSE [query_set |-> additional_query_filter(item_field(item), acc.query_set),
          order_fields |-> Append(acc.order_fields, order_field(item))]

RECURSIVE sort_items(_, _)
sort_items(acc, items) ==
    IF items = <<>> THEN acc
    ELSE sort_items(sort_item(acc, Head(items)), Tail(items))

apply_sort(query_set, items) ==
    LET acc == sort_items([query_set |-> query_set, order_fields |-> <<>>], items)
    IN  IF acc.order_fields # <<>>
        THEN order_by(acc.query_set, acc.order_fields)
        ELSE acc.query_set

(* The value a row is ordered by under a field; paths in collation order.  *)
PathOrder == <<"/a", "/b">>
SortKey(r, field) ==
    CASE field = "start_time"      -> r.start_time
      [] field = "path"            -> CHOOSE i \in DOMAIN PathOrder : PathOrder[i] = r.path
      [] field = "num_sql_queries" -> r.num_sql_queries
      [] field = "time_taken"      -> Val(r.time_taken)
      [] field = "db_time"         -> Val(r.db_time)

(* ORDER BY: r comes strictly before q when, at the first order field on   *)
(* which they differ, r has the smaller key (the larger under '-').        *)
ComesBefore(r, q, ordering) ==
    \E k \in DOMAIN ordering :
        /\ \A j \in 1..(k - 1) :
              SortKey(r, ordering[j][2]) = SortKey(q, ordering[j][2])
        /\ IF ordering[k][1] = "-"
           THEN SortKey(r, ordering[k][2]) > SortKey(q, ordering[k][2])
           ELSE SortKey(r, ordering[k][2]) < SortKey(q, ordering[k][2])

RECURSIVE RowOrders(_)
RowOrders(S) ==
    IF S = {} THEN {<<>>}
    ELSE UNION {{<<x>> \o s : s \in RowOrders(S \ {x})} : x \in S}

(* No two rows of the queryset tie under its ordering. *)
NoTies(query_set) ==
    \A r, q \in query_set.rows :
        r # q => \/ ComesBefore(r, q, query_set.ordering)
                 \/ ComesBefore(q, r, query_set.ordering)

(* The rows of a set without ties, in the order of the ordering. *)
RECURSIVE InOrder(_, _)
InOrder(S, ordering) ==
    IF S = {} THEN <<>>
    ELSE LET r == CHOOSE r \in S : \A q \in S \ {r} : ComesBefore(r, q, ordering)
         IN  <<r>> \o InOrder(S \ {r}, ordering)

(* The sequences the database may return for a queryset: its rows in any   *)
(* order its ordering allows (rows that tie come in any order; without     *)
(* ties there is one order).                                               *)
Evaluations(query_set) ==
    IF NoTies(query_set) THEN {InOrder(query_set.rows, query_set.ordering)}
    ELSE {s \in RowOrders(query_set.rows) :
             \A i, j \in DOMAIN s : i < j => ~ComesBefore(s[j], s[i], query_set.ordering)}

(***************************************************************************)
(* The predicate model (silk.request_filters).  A predicate is written as  *)
(* its as_dict(), the record of its typ and its value.                     *)
(***************************************************************************)
FilterTypes == {"PathFilter", "MethodFilter", "SecondsFilter"}

(* BaseFilter.from_dict(d): the predicate of the variant d['typ'] names;   *)
(* an unrecognised typ is a reconstruction failure.                        *)
from_dict(d) ==
    IF d.typ \in FilterTypes
    THEN [raised |-> NULL, filter |-> d]
    ELSE [raised |-> Some("UnknownFilterType"), filter |-> d]

(* The time the seconds-ago predicates count back from, in minutes. *)
Clock == 4330

(* Whether row r passes predicate f. *)
filter_matches(f, r) ==
    CASE f.typ = "PathFilter"    -> r.path = f.value
      [] f.typ = "MethodFilter"  -> r.method = f.value
      [] f.typ = "SecondsFilter" -> r.start_time >= Clock - (f.value \div 60)

(* query_set = f.contribute_to_query_set(query_set); query_set.filter(f) *)
apply_filter(query_set, f) ==
    [query_set EXCEPT !.rows = {r \in @ : filter_matches(f, r)}]

RECURSIVE apply_filters(_, _)
apply_filters(query_set, filters) ==
    IF filters = <<>> THEN query_set
    ELSE apply_filters(apply_filter(query_set, Head(filters)), Tail(filters))

(***************************************************************************)
(* RequestsView._get_objects                                               *)
(*                                                                         *)
(* show is [passed |-> FALSE] when the argument is left out and            *)
(* [passed |-> TRUE, value |-> v] otherwise, v being NULL for None; the    *)
(* other arguments (by for order_by, dir for order_dir, sorts for         *)
(* sort_list) are NULL for None.  The result is the error raised, if     *)
(* any, the queryset built and the slice bound, NULL for no slice.         *)
(***************************************************************************)
DEFAULT_PER_PAGE == 25
default_show == DEFAULT_PER_PAGE

ShowNotSet   == [passed |-> FALSE, value |-> NULL]
ShowValue(v) == [passed |-> TRUE, value |-> v]

(* not x, for x None or a string *)
falsy(x) == IF x = NULL THEN TRUE ELSE Val(x) = ""

(* if order_by not in SORT_OPTIONS: raise RuntimeError(...) *)
legacy_sort(query_set, by, dir) ==
    IF by \notin SORT_OPTIONS
    THEN [raised |-> Some("RuntimeError"), query_set |-> query_set]
    ELSE [raised |-> NULL,
          query_set |-> apply_sort(query_set, <<[field |-> by, dir |-> dir]>>)]

(* _get_objects with show=None taken for show not passed. *)
get_objects_none_is_default(rows, show, by, dir, path, filters, sorts) ==
    LET ob == IF falsy(by) THEN default_order_by ELSE Val(by)
        od == IF falsy(dir) THEN default_order_dir ELSE Val(dir)
        sorted == IF sorts # NULL /\ Val(sorts) # <<>>
                  THEN [raised |-> NULL,
                        query_set |-> apply_sort(all_objects(rows), Val(sorts))]
                  ELSE legacy_sort(all_objects(rows), ob, od)
        by_path == IF falsy(path) THEN sorted.query_set
                   ELSE [sorted.query_set EXCEPT
                            !.rows = {r \in @ : r.path = Val(path)}]
        filtered == apply_filters(by_path, filters)
        limit == IF ~show.passed \/ show.value = NULL
                 THEN Some(default_show) ELSE show.value
    IN  IF sorted.raised # NULL
        THEN [raised |-> sorted.raised, query_set |-> sorted.query_set, limit |-> NULL]
        ELSE [raised |-> NULL, query_set |-> filtered, limit |-> limit]

get_objects(rows, show, by, dir, path, filters, sorts) ==
    LET ob == IF falsy(by) THEN default_order_by ELSE Val(by)
        od == IF falsy(dir) THEN default_order_dir ELSE Val(dir)
        sorted == IF sorts # NULL /\ Val(sorts) # <<>>
                  THEN [raised |-> NULL,
                        query_set |-> apply_sort(all_objects(rows), Val(sorts))]
                  ELSE legacy_sort(all_objects(rows), ob, od)
        by_path == IF falsy(path) THEN sorted.query_set
                   ELSE [sorted.query_set EXCEPT
                            !.rows = {r \in @ : r.path = Val(path)}]
        filtered == apply_filters(by_path, filters)
        limit == IF ~show.passed THEN Some(default_show) ELSE show.value
    IN  IF sorted.raised # NULL
        THEN [raised |-> sorted.raised, query_set |-> sorted.query_set, limit |-> NULL]
        ELSE [raised |-> NULL, query_set |-> filtered, limit |-> limit]

(* rows[:limit], limit not negative *)
slice_to(rows, limit) ==
    IF limit = NULL \/ Len(rows) <= Val(limit) THEN rows
    ELSE SubSeq(rows, 1, Val(limit))

(***************************************************************************)
(* RequestsView._create_context                                            *)
(*                                                                         *)
(* The outcome is the error raised, if any, and the context built.         *)
(***************************************************************************)
default_view_style == "row"

(* int(text) on the texts the model submits; any other text is a           *)
(* ValueError.                                                             *)
int_of(text) ==
    CASE text = "2"   -> [ok |-> TRUE, value |-> 2]
      [] text = "7"   -> [ok |-> TRUE, value |-> 7]
      [] text = "10"  -> [ok |-> TRUE, value |-> 10]
      [] text = "50"  -> [ok |-> TRUE, value |-> 50]
      [] text = "100" -> [ok |-> TRUE, value |-> 100]
      [] OTHER        -> [ok |-> FALSE, value |-> 0]

(* show = raw_filters.pop('show', self.default_show); if show: int(show):  *)
(* the integer, NULL for the empty text, or the ValueError of int().       *)
context_show(state) ==
    IF "show" \notin DOMAIN state THEN [ok |-> TRUE, value |-> Some(default_show)]
    ELSE IF state["show"] = "" THEN [ok |-> TRUE, value |-> NULL]
    ELSE IF int_of(state["show"]).ok
         THEN [ok |-> TRUE, value |-> Some(int_of(state["show"]).value)]
         ELSE [ok |-> FALSE, value |-> NULL]

(* per_page = show or DEFAULT_PER_PAGE *)
context_per_page(show) ==
    IF show = NULL THEN DEFAULT_PER_PAGE
    ELSE IF Val(show) = 0 THEN DEFAULT_PER_PAGE ELSE Val(show)

(* self._get_sort_list(request) *)
get_sort_list(stored) == IF stored = NULL THEN DEFAULT_SORT_LIST ELSE Val(stored)

(* The values of a dict, as a list. *)
RECURSIVE dict_values(_)
dict_values(d) ==
    IF DOMAIN d = {} THEN <<>>
    ELSE LET k == CHOOSE k \in DOMAIN d : TRUE
         IN  <<d[k]>> \o dict_values([j \in DOMAIN d \ {k} |-> d[j]])

(* get_page(request, qs, per_page): the page asked for, clamped to the     *)
(* pages there are.                                                        *)
get_page(GET, query_set, per_page) ==
    LET count == Cardinality(query_set.rows)
        total == IF count = 0 THEN 1 ELSE (count + per_page - 1) \div per_page
        asked == IF "page" \in DOMAIN GET /\ int_of(dict_get(GET, "page", "")).ok
                 THEN int_of(GET["page"]).value ELSE 1
    IN  [number |-> IF asked < 1 THEN 1 ELSE IF asked > total THEN total ELSE asked,
         num_pages |-> total, per_page |-> per_page]

NoContext == [show |-> NULL, per_page |-> 0, order_by |-> "", order_dir |-> "",
              view_style |-> "", filters |-> EmptyDict, sort_list |-> <<>>,
              calls |-> <<>>, page |-> 0]

(* [BaseFilter.from_dict(x) for _, x in raw_filters.items()] with every    *)
(* reconstruction failure swallowed and its predicate left out.            *)
rebuild_filters_lenient(raw_filters) ==
    [raised |-> NULL,
     filters |-> SelectSeq(dict_values(raw_filters),
                           LAMBDA d : from_dict(d).raised = NULL)]

(* [BaseFilter.from_dict(x) for _, x in raw_filters.items()] *)
rebuild_filters(raw_filters) ==
    LET rebuilt == {from_dict(raw_filters[k]) : k \in DOMAIN raw_filters}
    IN  IF \E f \in rebuilt : f.raised # NULL
        THEN [raised |-> (CHOOSE f \in rebuilt : f.raised # NULL).raised,
              filters |-> <<>>]
        ELSE [raised |-> NULL, filters |-> dict_values(raw_filters)]

create_context(state, stored_sort, GET, rows) ==
    LET raw_filters == [k \in DOMAIN state \ non_filter_keys |-> state[k]]
        show        == context_show(state)
        by          == dict_get(state, "order_by", default_order_by)
        dir         == dict_get(state, "order_dir", default_order_dir)
        view_style  == dict_get(state, "view_style", default_view_style)
        path        == IF "path" \in DOMAIN GET THEN Some(GET["path"]) ELSE NULL
        sorts       == get_sort_list(stored_sort)
        rebuilt     == rebuild_filters(raw_filters)
        got         == get_objects(rows, ShowValue(NULL), Some(by), Some(dir), path,
                                   rebuilt.filters, Some(sorts))
        per_page    == context_per_page(show.value)
    IN  IF ~show.ok THEN [raised |-> Some("ValueError"), context |-> NoContext]
        ELSE IF rebuilt.raised # NULL
        THEN [raised |-> rebuilt.raised, context |-> NoContext]
        ELSE IF got.raised # NULL
        THEN [raised |-> got.raised, context |-> NoContext]
        ELSE IF \E k \in DOMAIN sorts : "field" \notin DOMAIN sorts[k]
        THEN [raised |-> Some("KeyError"), context |-> NoContext]
        ELSE [raised |-> NULL,
              context |-> [show |-> show.value, per_page |-> per_page,
                           order_by |-> by, order_dir |-> dir,
                           view_style |-> view_style, filters |-> raw_filters,
                           sort_list |-> sorts, calls |-> got.query_set.calls,
                           page |-> get_page(GET, got.query_set, per_page).number]]

(***************************************************************************)
(* SpecRequests: GET and POST requests reach the requests view one after   *)
(* the other, each with at most MaxParams parameters.  A handler runs as   *)
(* one step and ends with _create_context, which reads the session and    *)
(* changes nothing.  When the response has gone out, the request and the   *)
(* handler's locals are gone and the session stays.  Between requests a    *)
(* caller may save any state through the store.                            *)
(***************************************************************************)
MaxParams == 2

GetKeys  == {"show", "order_by", "order_dir", "view_style", "per_page",
             "sort_criteria", "page"}
PostKeys == {"show", "order_by", "order_dir", "view_style", "sort_criteria",
             "clear_filters"} \cup FilterFormKeys

ParamValues(k) ==
    CASE k = "show"          -> {"10", "50", "abc"}
      [] k = "per_page"      -> {"7"}
      [] k = "order_by"      -> {"path", "bogus"}
      [] k = "order_dir"     -> {"ASC"}
      [] k = "view_style"    -> {"card"}
      [] k = "page"          -> {"2"}
      [] k = "clear_filters" -> {"1"}
      [] k = "time_preset"   -> {"1h", "bogus"}
      [] k = "sort_criteria" -> {JsonSortList, JsonEmptyList, JsonObject, JsonInvalid,
                                 JsonBadList}
      [] k = "filter-1-typ"   -> {"PathFilter"}
      [] k = "filter-1-value" -> {"/a", ""}
      [] k = "filter-2-typ"   -> {"MethodFilter"}
      [] k = "filter-2-value" -> {"GET"}

(* The dicts with exactly the given keys. *)
RECURSIVE DictsOver(_)
DictsOver(keys) ==
    IF keys = {} THEN {EmptyDict}
    ELSE LET k == CHOOSE k \in keys : TRUE
         IN  {dict_merge(d, [x \in {k} |-> v]) :
                 d \in DictsOver(keys \ {k}), v \in ParamValues(k)}

QueryDicts(keys) ==
    UNION {DictsOver(D) : D \in {D \in SUBSET keys : Cardinality(D) <= MaxParams}}

ReqOthers == <<fpVars, npVars, pctVars, histVars, sortVars, objVars, aggVars, sumVars, sessVars, migVars, relVars, clrVars>>

ReqInit == /\ session = EmptyDict
           /\ request_sort = NULL
           /\ request = NotRun
           /\ previous_session = EmptyDict
           /\ response = NotRun
           /\ FpIdle /\ NpIdle /\ PctIdle /\ HistIdle /\ SortIdle /\ ObjIdle /\ AggIdle /\ SumIdle /\ SessIdle /\ MigIdle /\ RelIdle /\ ClrIdle

(* The Filter State Store of the requests view: get gives the current     *)
(* selection state, the empty state when none was saved; save replaces it  *)
(* in full.                                                                *)
filters_manager_get(store) == store
filters_manager_save(store, state) == state

Get(GET) ==
    /\ ~request.run
    /\ request' = [run |-> TRUE, method |-> "GET", params |-> GET,
                   previous_sort |-> request_sort]
    /\ previous_session' = session
    /\ request_sort' = get_sort(GET, request_sort)
    /\ session' = IF GET # EmptyDict
                  THEN filters_manager_save(session,
                           get_filters(GET, filters_manager_get(session)))
                  ELSE session
    /\ response' = [run |-> TRUE,
                    outcome |-> create_context(session', request_sort', GET, table)]
    /\ UNCHANGED ReqOthers

Post(POST) ==
    /\ ~request.run
    /\ request' = [run |-> TRUE, method |-> "POST", params |-> POST,
                   previous_sort |-> request_sort]
    /\ previous_session' = filters_manager_get(session)
    /\ request_sort' = post_sort(POST, request_sort)
    /\ session' = filters_manager_save(session,
                      post_filters(POST, filters_manager_get(session)))
    /\ response' = [run |-> TRUE,
                    outcome |-> create_context(session', request_sort', EmptyDict, table)]
    /\ UNCHANGED ReqOthers

Respond ==
    /\ request.run
    /\ request' = NotRun
    /\ previous_session' = EmptyDict
    /\ response' = NotRun
    /\ UNCHANGED <<session, request_sort, ReqOthers>>

(* A predicate dictionary of a variant this code does not know, as saved   *)
(* by another version of it.                                               *)
StalePredicate == [typ |-> "GoneFilter", value |-> "x"]
SavedStates == {[k \in {"9"} |-> StalePredicate],
                dict_merge([k \in {"9"} |-> StalePredicate], [show |-> "10"])}

(* filters_manager.save(request, state), by a caller other than the view *)
StoreSave(state) ==
    /\ ~request.run
    /\ session' = filters_manager_save(session, state)
    /\ UNCHANGED <<request_sort, request, previous_session, response, ReqOthers>>

ReqNext == \/ \E GET \in QueryDicts(GetKeys) : Get(GET)
           \/ \E POST \in QueryDicts(PostKeys) : Post(POST)
           \/ Respond
           \/ \E state \in SavedStates : StoreSave(state)

SpecRequests == ReqInit /\ [][ReqNext]_vars

(* The predicate entries of a filter state. *)
PredicateKeys(state) == DOMAIN state \ non_filter_keys

(* The last request is a toolbar POST, or a GET with query parameters. *)
IsToolbarPost ==
    /\ request.run /\ request.method = "POST"
    /\ "clear_filters" \notin DOMAIN request.params
    /\ DOMAIN request.params \cap FilterFormKeys = {}
IsGetWithParams ==
    request.run /\ request.method = "GET" /\ request.params # EmptyDict

(* Key k keeps what it had before the request. *)
Untouched(k) ==
    /\ k \in DOMAIN session <=> k \in DOMAIN previous_session
    /\ k \in DOMAIN session => session[k] = previous_session[k]

AllKeys == DOMAIN session \cup DOMAIN previous_session \cup non_filter_keys

(* C8, as claimed: a toolbar POST or a GET with query parameters saves the *)
(* previous state overlaid with the submitted show, order_by, order_dir    *)
(* and view_style; every key that was not submitted keeps its value.       *)
C8_MergeUpdateSubmittedOnly ==
    (IsToolbarPost \/ IsGetWithParams) =>
        \A k \in AllKeys :
            IF k \in non_filter_keys /\ k \in DOMAIN request.params
            THEN k \in DOMAIN session /\ session[k] = request.params[k]
            ELSE Untouched(k)

(* On a GET, per_page stands for show when show is not submitted. *)
PerPageAlias ==
    /\ request.method = "GET"
    /\ "per_page" \in DOMAIN request.params
    /\ "show" \notin DOMAIN request.params

(* C8, amended: as claimed, except that a GET with per_page and without    *)
(* show saves the per_page value as show.                                  *)
C8_MergeUpdate ==
    (IsToolbarPost \/ IsGetWithParams) =>
        \A k \in AllKeys :
            IF k \in non_filter_keys /\ k \in DOMAIN request.params
            THEN k \in DOMAIN session /\ session[k] = request.params[k]
            ELSE IF k = "show" /\ PerPageAlias
            THEN k \in DOMAIN session /\ session[k] = request.params["per_page"]
            ELSE Untouched(k)

(* A toolbar POST of show=50 on a state with order_by, show=10 and a       *)
(* predicate: show changes, order_by and the predicate stay.               *)
C8_Witness ==
    /\ IsToolbarPost
    /\ request.params = [show |-> "50"]
    /\ DOMAIN previous_session = {"show", "order_by", "1"}
    /\ previous_session["show"] = "10"
    /\ session["show"] = "50"
    /\ session["order_by"] = previous_session["order_by"]
    /\ session["1"] = previous_session["1"]

(* C9: a POST that carries clear_filters saves exactly the show and        *)
(* view_style entries of the previous state, with their previous values,   *)
(* whatever else the POST carries; no predicate entry is left.             *)
C9_ClearFilters ==
    (request.run /\ request.method = "POST"
        /\ "clear_filters" \in DOMAIN request.params) =>
        /\ \A k \in {"show", "view_style"} : Untouched(k)
        /\ DOMAIN session \subseteq {"show", "view_style"}
        /\ PredicateKeys(session) = {}

(* A clear_filters POST that also carries show=50, on a state with         *)
(* show=10, order_by and a predicate: only show=10 is left.                *)
C9_Witness ==
    /\ request.run /\ request.method = "POST"
    /\ request.params = [clear_filters |-> "1", show |-> "50"]
    /\ DOMAIN previous_session = {"show", "order_by", "1"}
    /\ previous_session["show"] = "10"
    /\ session = [show |-> "10"]


(* The sort_criteria payload of the last request is malformed: text that   *)
(* is not JSON, or JSON that is not a list.                                *)
MalformedSortCriteria ==
    /\ request.run
    /\ "sort_criteria" \in DOMAIN request.params
    /\ request.params["sort_criteria"] \in {JsonInvalid, JsonObject}

(* The state the context is built from is sound: the stored page size is   *)
(* an integer, every stored predicate is of a known variant and every      *)
(* entry of the stored sort list names a field.                            *)
SoundState ==
    /\ "show" \in DOMAIN session => int_of(session["show"]).ok
    /\ request_sort # NULL =>
           \A k \in DOMAIN Val(request_sort) : "field" \in DOMAIN Val(request_sort)[k]
    /\ \A k \in DOMAIN session \ non_filter_keys : session[k].typ \in FilterTypes

(* C14: a malformed sort_criteria payload in a GET or a POST is ignored:   *)
(* the persisted sort list is what it was before the request, the listing  *)
(* is built with it (with the default list when none is stored), no error  *)
(* of the payload reaches the caller, and the request is served whenever   *)
(* the stored state is sound.                                              *)
C14_MalformedSortIgnored ==
    MalformedSortCriteria =>
        /\ request_sort = request.previous_sort
        /\ response.outcome.raised \in {NULL, Some("ValueError"), Some("UnknownFilterType"),
                                        Some("KeyError")}
        /\ SoundState => response.outcome.raised = NULL
        /\ response.outcome.raised = NULL =>
              response.outcome.context.sort_list =
                  IF request.previous_sort = NULL THEN DEFAULT_SORT_LIST
                  ELSE Val(request.previous_sort)

(* After a sort list was stored, a POST whose sort_criteria is JSON but no *)
(* list is served with the stored list; and a GET with text that is no     *)
(* JSON on a fresh session is served with the default list.                *)
C14_Witness ==
    /\ MalformedSortCriteria
    /\ request.method = "POST"
    /\ request.params = [sort_criteria |-> JsonObject]
    /\ request.previous_sort = Some(<<[field |-> "path", dir |-> "ASC"]>>)
    /\ request_sort = request.previous_sort
    /\ response.outcome.raised = NULL
    /\ response.outcome.context.sort_list = <<[field |-> "path", dir |-> "ASC"]>>

(***************************************************************************)
(* SpecSort: requests are recorded, sort criteria are added to the sort    *)
(* list, and the listing is sorted and read.                               *)
(***************************************************************************)
MaxRows == 5
MaxSort == 2

(* The requests recorded, in turn and again from the first: rows 1 and 2   *)
(* share a path, rows 1 and 4 differ in nothing but pk, row 2 has no time, *)
(* row 3 a negative one, row 5 a negative summed query time.               *)
RecordedRows ==
    << [path |-> "/a", method |-> "GET", start_time |-> 1, num_sql_queries |-> 2,
        time_taken |-> Some(30), db_time |-> Some(4)],
       [path |-> "/a", method |-> "POST", start_time |-> 2, num_sql_queries |-> 0,
        time_taken |-> NULL, db_time |-> NULL],
       [path |-> "/b", method |-> "GET", start_time |-> 1, num_sql_queries |-> 2,
        time_taken |-> Some(-1), db_time |-> Some(9)],
       [path |-> "/a", method |-> "GET", start_time |-> 1, num_sql_queries |-> 2,
        time_taken |-> Some(30), db_time |-> Some(4)],
       [path |-> "/b", method |-> "GET", start_time |-> 3, num_sql_queries |-> 1,
        time_taken |-> Some(5), db_time |-> Some(-2)] >>

RowOf(pk) ==
    LET r == RecordedRows[((pk - 1) % Len(RecordedRows)) + 1]
    IN  [pk |-> pk, path |-> r.path, method |-> r.method, start_time |-> r.start_time,
         num_sql_queries |-> r.num_sql_queries, time_taken |-> r.time_taken,
         db_time |-> r.db_time]

(* The entries a sort list may hold: every known field and an unknown one  *)
(* in both directions, an entry with neither key, and one whose direction  *)
(* is not spelled DESC.                                                    *)
SortFields  == SORT_OPTIONS \cup {"bogus"}
SortEntries == {[field |-> f, dir |-> d] : f \in SortFields, d \in {"ASC", "DESC"}}
                   \cup {EmptyDict, [field |-> "path", dir |-> "desc"]}

SortOthers == <<fpVars, npVars, pctVars, histVars, reqVars, objVars, aggVars, sumVars, sessVars, migVars, relVars, clrVars>>

SortInit == /\ table = <<>>
            /\ sort_list = <<>>
            /\ sorted_rows = NotRun
            /\ FpIdle /\ NpIdle /\ PctIdle /\ HistIdle /\ ReqIdle /\ ObjIdle /\ AggIdle /\ SumIdle /\ SessIdle /\ MigIdle /\ RelIdle /\ ClrIdle

InsertRow ==
    /\ ~sorted_rows.run
    /\ sort_list = <<>>
    /\ Len(table) < MaxRows
    /\ table' = Append(table, RowOf(Len(table) + 1))
    /\ UNCHANGED <<sort_list, sorted_rows, SortOthers>>

AddCriterion(item) ==
    /\ ~sorted_rows.run
    /\ Len(sort_list) < MaxSort
    /\ sort_list' = Append(sort_list, item)
    /\ UNCHANGED <<table, sorted_rows, SortOthers>>

ApplySort ==
    /\ ~sorted_rows.run
    /\ LET query_set == apply_sort(all_objects(table), sort_list)
       IN  \E rows \in Evaluations(query_set) :
               sorted_rows' = [run |-> TRUE, calls |-> query_set.calls, rows |-> rows]
    /\ UNCHANGED <<table, sort_list, SortOthers>>

SortNext == \/ InsertRow
            \/ \E item \in SortEntries : AddCriterion(item)
            \/ ApplySort

SpecSort == SortInit /\ [][SortNext]_vars

(* The entries of the sort list that name a known field (an entry without  *)
(* a field names start_time), and whether entry k is descending (an entry  *)
(* without a direction is).                                                *)
KnownEntries ==
    SelectSeq(sort_list,
              LAMBDA e : IF "field" \in DOMAIN e THEN e.field \in SORT_OPTIONS ELSE TRUE)
EntryField(e) == IF "field" \in DOMAIN e THEN e.field ELSE "start_time"
EntryDesc(e)  == IF "dir" \in DOMAIN e THEN e.dir = "DESC" ELSE TRUE

TieBefore(r, q, k) ==
    \A j \in 1..(k - 1) :
        SortKey(r, EntryField(KnownEntries[j])) = SortKey(q, EntryField(KnownEntries[j]))

(* C10: one ordering call is made, with the known fields of the sort list  *)
(* in their order, each prefixed with '-' exactly when its direction is    *)
(* DESC (no call when no field is known); in the rows returned, two rows   *)
(* that tie on all entries before entry k and differ on entry k come in    *)
(* the order entry k asks for, whatever the later entries say.             *)
C10_CompoundOrdering ==
    sorted_rows.run =>
        /\ sorted_rows.calls =
              IF KnownEntries = <<>> THEN <<>>
              ELSE << [k \in DOMAIN KnownEntries |->
                         <<IF EntryDesc(KnownEntries[k]) THEN "-" ELSE "",
                           EntryField(KnownEntries[k])>>] >>
        /\ \A i, j \in DOMAIN sorted_rows.rows :
              \A k \in DOMAIN KnownEntries :
                  LET r == sorted_rows.rows[i]
                      q == sorted_rows.rows[j]
                      f == EntryField(KnownEntries[k])
                  IN  (i < j /\ TieBefore(r, q, k) /\ SortKey(r, f) # SortKey(q, f)) =>
                          IF EntryDesc(KnownEntries[k])
                          THEN SortKey(r, f) > SortKey(q, f)
                          ELSE SortKey(r, f) < SortKey(q, f)

(* path ascending, then start_time descending: of the rows of path /a the  *)
(* one of start_time 2 comes first, and the row of path /b comes last      *)
(* although its start_time is 1.                                           *)
C10_Witness ==
    /\ sorted_rows.run
    /\ sort_list = <<[field |-> "path", dir |-> "ASC"],
                     [field |-> "start_time", dir |-> "DESC"]>>
    /\ Len(sorted_rows.rows) = 4
    /\ sorted_rows.rows[1].pk = 2
    /\ sorted_rows.rows[2].pk = 4
    /\ sorted_rows.rows[3].pk = 1
    /\ sorted_rows.rows[4].pk = 3

(* The fields the entries of the sort list name, at any position and in    *)
(* any direction.                                                          *)
FieldsNamed == {EntryField(sort_list[k]) : k \in DOMAIN sort_list}

(* The rows a sort by the sort list lets through. *)
PassesSort(r) ==
    /\ "time_taken" \in FieldsNamed => r.time_taken # NULL /\ Val(r.time_taken) >= 0
    /\ "db_time" \in FieldsNamed => r.db_time # NULL /\ Val(r.db_time) >= 0

(* C33: a sort returns every recorded row once when its entries name only  *)
(* start_time, path, num_sql_queries or unknown fields, and makes no       *)
(* ordering call when the list is empty; with an entry for time_taken the  *)
(* rows without a time or with a negative one are left out, with an entry  *)
(* for db_time the rows whose summed query time is null or negative,       *)
(* wherever the entry stands and whatever its direction; no other row is   *)
(* left out.                                                               *)
C33_SortKeepsRows ==
    sorted_rows.run =>
        /\ Range(sorted_rows.rows) = {r \in Range(table) : PassesSort(r)}
        /\ Len(sorted_rows.rows) = Cardinality(Range(sorted_rows.rows))
        /\ FieldsNamed \cap {"time_taken", "db_time"} = {} =>
               Range(sorted_rows.rows) = Range(table)
        /\ sort_list = <<>> => sorted_rows.calls = <<>>

(* path first and db_time ascending second, on five rows: the row without  *)
(* queries and the row with a negative sum are left out.                   *)
C33_Witness ==
    /\ sorted_rows.run
    /\ Len(table) = 5
    /\ sort_list = <<[field |-> "path", dir |-> "ASC"], [field |-> "db_time", dir |-> "ASC"]>>
    /\ {r.pk : r \in Range(sorted_rows.rows)} = {1, 3, 4}

(* time_taken descending on five rows: the row without a time and the row  *)
(* with a negative one are left out.                                       *)
C33_WitnessTimeTaken ==
    /\ sorted_rows.run
    /\ Len(table) = 5
    /\ sort_list = <<[field |-> "time_taken", dir |-> "DESC"]>>
    /\ {r.pk : r \in Range(sorted_rows.rows)} = {1, 4, 5}

(* An unknown field and num_sql_queries on five rows: all five come back. *)
C33_WitnessAllKept ==
    /\ sorted_rows.run
    /\ Len(table) = 5
    /\ sort_list = <<[field |-> "bogus", dir |-> "ASC"],
                     [field |-> "num_sql_queries", dir |-> "DESC"]>>
    /\ Len(sorted_rows.rows) = 5

(* The empty sort list on five rows: all five come back, unordered. *)
C33_WitnessEmpty ==
    /\ sorted_rows.run
    /\ Len(table) = 5
    /\ sort_list = <<>>
    /\ sorted_rows.calls = <<>>
    /\ Len(sorted_rows.rows) = 5

(***************************************************************************)
(* SpecObjects: _get_objects is called on a table of recorded requests,    *)
(* with a sort list or with the legacy order_by / order_dir pair, and the  *)
(* queryset it returns is read.                                            *)
(***************************************************************************)
ObjSortEntries == {[field |-> "path", dir |-> "ASC"],
                   [field |-> "start_time", dir |-> "DESC"],
                   [field |-> "time_taken", dir |-> "DESC"],
                   [field |-> "bogus", dir |-> "ASC"]}

RECURSIVE SeqsUpTo(_, _)
SeqsUpTo(S, n) ==
    IF n = 0 THEN {<<>>}
    ELSE LET shorter == SeqsUpTo(S, n - 1)
         IN  shorter \cup {Append(q, x) : q \in shorter, x \in S}

ObjSortLists == SeqsUpTo(ObjSortEntries, MaxSort) \ {<<>>}
ObjTables    == {[pk \in 1..n |-> RowOf(pk)] : n \in 0..MaxRows}
ObjShows     == {ShowNotSet, ShowValue(NULL), ShowValue(Some(2))}
ObjPaths     == {NULL, Some("/a")}
ObjFilters   == {<<>>, <<[typ |-> "PathFilter", value |-> "/a"]>>,
                 <<[typ |-> "MethodFilter", value |-> "GET"]>>}
ObjOrderBys  == {NULL, Some(""), Some("path"), Some("bogus")}
ObjOrderDirs == {NULL, Some("ASC")}

ObjOthers == <<fpVars, npVars, pctVars, histVars, reqVars, sortVars, aggVars, sumVars, sessVars, migVars, relVars, clrVars>>

ObjInit == /\ objects = NotRun
           /\ FpIdle /\ NpIdle /\ PctIdle /\ HistIdle /\ ReqIdle /\ SortIdle /\ AggIdle /\ SumIdle /\ SessIdle /\ MigIdle /\ RelIdle /\ ClrIdle

(* The call and what it gave: the error raised, or the rows read from the  *)
(* queryset returned.                                                      *)
GetObjects(rows, show, by, dir, path, filters, sorts) ==
    /\ ~objects.run
    /\ LET got == get_objects(rows, show, by, dir, path, filters, sorts)
       IN  \E read \in Evaluations(got.query_set) :
               objects' = [run |-> TRUE, table |-> rows, show |-> show,
                           order_by |-> by, order_dir |-> dir, path |-> path,
                           filters |-> filters, sort_list |-> sorts,
                           raised |-> got.raised,
                           calls |-> got.query_set.calls,
                           rows |-> IF got.raised # NULL THEN <<>>
                                    ELSE slice_to(read, got.limit)]
    /\ UNCHANGED ObjOthers

(* _get_objects(..., sort_list=[...]) *)
GetObjectsBySortList ==
    \E rows \in ObjTables, show \in ObjShows, path \in ObjPaths,
       filters \in ObjFilters, sorts \in ObjSortLists :
        GetObjects(rows, show, NULL, NULL, path, filters, Some(sorts))

(* _get_objects(..., order_by=..., order_dir=...), no sort list or an      *)
(* empty one                                                               *)
GetObjectsByOrderBy ==
    \E rows \in ObjTables, show \in ObjShows, by \in ObjOrderBys,
       dir \in ObjOrderDirs, sorts \in {NULL, Some(<<>>)} :
        GetObjects(rows, show, by, dir, NULL, <<>>, sorts)

ReturnObjects ==
    /\ objects.run
    /\ objects' = NotRun
    /\ UNCHANGED ObjOthers

ObjNext == GetObjectsBySortList \/ GetObjectsByOrderBy \/ ReturnObjects

SpecObjects == ObjInit /\ [][ObjNext]_vars

(* The sort selection the call was made with: its sort list when that is   *)
(* not empty, else the legacy pair as a one-entry list.                    *)
SortSelection ==
    IF objects.sort_list # NULL /\ Val(objects.sort_list) # <<>>
    THEN Val(objects.sort_list)
    ELSE <<[field |-> IF falsy(objects.order_by) THEN "start_time"
                      ELSE Val(objects.order_by),
            dir   |-> IF falsy(objects.order_dir) THEN "DESC"
                      ELSE Val(objects.order_dir)]>>

NamesUnknownField == \E k \in DOMAIN SortSelection : SortSelection[k].field \notin SORT_OPTIONS

KnownSelection == SelectSeq(SortSelection, LAMBDA e : e.field \in SORT_OPTIONS)

(* C11: a listing built from a sort selection, a sort list or the legacy   *)
(* order_by / order_dir pair, that names an unknown field raises no error: *)
(* the unknown entries are skipped and the known ones order the result in  *)
(* one ordering call.                                                      *)
C11_UnknownSortFieldNoError ==
    (objects.run /\ NamesUnknownField) =>
        /\ objects.raised = NULL
        /\ objects.calls =
              IF KnownSelection = <<>> THEN <<>>
              ELSE << [k \in DOMAIN KnownSelection |->
                         <<IF KnownSelection[k].dir = "DESC" THEN "-" ELSE "",
                           KnownSelection[k].field>>] >>

(* C11 for sort lists alone: an unknown field in a non-empty sort list is  *)
(* skipped without an error and the known entries order the result.        *)
C11_SortListSkipsUnknown ==
    (objects.run /\ objects.sort_list # NULL) => 
        (Val(objects.sort_list) # <<>> => C11_UnknownSortFieldNoError)

(* The legacy pair names an unknown field and _get_objects raises. *)
C11_LegacyRaises ==
    /\ objects.run
    /\ objects.sort_list = NULL
    /\ objects.order_by = Some("bogus")
    /\ objects.raised = Some("RuntimeError")

(***************************************************************************)
(* SummaryView: the derived views                                          *)
(*                                                                         *)
(* A Request row carries its pk, path, method, view_name, start_time (in   *)
(* minutes), time_taken (nullable), response: NULL when it has no Response *)
(* row, else Some(status_code) with status_code nullable, and queries: the *)
(* time_taken (nullable) of each of its SQLQuery rows.                     *)
(***************************************************************************)

(* models.Request.objects.filter(filters...) *)
filter_requests(rows, filters) ==
    SelectSeq(rows, LAMBDA r : \A k \in DOMAIN filters : filter_matches(filters[k], r))

RECURSIVE SumSeq(_)
SumSeq(q) == IF q = <<>> THEN 0 ELSE Head(q) + SumSeq(Tail(q))

SetMax(S) == CHOOSE x \in S : \A y \in S : y <= x
SetMin(S) == CHOOSE x \in S : \A y \in S : x <= y

(* The elements of a set of numbers in ascending order. *)
RECURSIVE ascending(_)
ascending(S) ==
    IF S = {} THEN <<>> ELSE <<SetMin(S)>> \o ascending(S \ {SetMin(S)})

(* .order_by('time_taken') on a column of numbers *)
RECURSIVE insert_ascending(_, _)
insert_ascending(sorted, v) ==
    IF sorted = <<>> THEN <<v>>
    ELSE IF v < Head(sorted) THEN <<v>> \o sorted
    ELSE <<Head(sorted)>> \o insert_ascending(Tail(sorted), v)

RECURSIVE order_ascending(_)
order_ascending(column) ==
    IF column = <<>> THEN <<>>
    ELSE insert_ascending(order_ascending(Tail(column)), Head(column))

(* ---- _request_timeline ---- *)
MinutesPerHour == 60
HoursPerDay    == 24
SpanHoursLimit == 72

TruncHour(t) == t - (t % MinutesPerHour)
TruncDay(t)  == t - (t % (MinutesPerHour * HoursPerDay))

(* trunc = TruncDay if span_hours >= 72 else TruncHour *)
timeline_by_day_ge(min_t, max_t) == (max_t - min_t) >= SpanHoursLimit * MinutesPerHour

(* span_hours = (max_t - min_t).total_seconds() / 3600; span_hours > 72 *)
timeline_by_day(min_t, max_t) == (max_t - min_t) > SpanHoursLimit * MinutesPerHour

request_timeline(rows, filters) ==
    LET qs     == filter_requests(rows, filters)
        starts == {qs[i].start_time : i \in DOMAIN qs}
    IN  IF starts = {} THEN <<>>
        ELSE LET by_day == timeline_by_day(SetMin(starts), SetMax(starts))
                 bucket(t) == IF by_day THEN TruncDay(t) ELSE TruncHour(t)
                 buckets == ascending({bucket(t) : t \in starts})
             IN  [k \in DOMAIN buckets |->
                    [t |-> buckets[k],
                     count |-> Cardinality({i \in DOMAIN qs :
                                              bucket(qs[i].start_time) = buckets[k]})]]

(* ---- _status_distribution ---- *)
StatusClasses == {"2xx", "3xx", "4xx", "5xx"}

status_class_from_100(sc) ==
    IF sc < 300 THEN "2xx"
    ELSE IF 300 <= sc /\ sc < 400 THEN "3xx"
    ELSE IF 400 <= sc /\ sc < 500 THEN "4xx"
    ELSE "5xx"

(* The bucket the if / elif chain adds a status code to, "" for none. *)
status_class(sc) ==
    IF 200 <= sc /\ sc < 300 THEN "2xx"
    ELSE IF 300 <= sc /\ sc < 400 THEN "3xx"
    ELSE IF 400 <= sc /\ sc < 500 THEN "4xx"
    ELSE IF sc >= 500 THEN "5xx"
    ELSE ""

(* buckets[...] += row['count'], for one row of the grouped query *)
add_status_row(buckets, sc, count) ==
    IF status_class(sc) = "" THEN buckets
    ELSE [buckets EXCEPT ![status_class(sc)] = @ + count]

RECURSIVE add_status_rows(_, _, _)
add_status_rows(buckets, codes, responses) ==
    IF codes = <<>> THEN buckets
    ELSE add_status_rows(
             add_status_row(buckets, Head(codes),
                 Cardinality({i \in DOMAIN responses :
                                 Val(Val(responses[i].response)) = Head(codes)})),
             Tail(codes), responses)

status_distribution_empty_mapping(rows, filters) ==
    LET request_pks == filter_requests(rows, filters)
        responses   == SelectSeq(request_pks,
                           LAMBDA r : IF r.response = NULL THEN FALSE
                                      ELSE Val(r.response) # NULL)
        codes       == ascending({Val(Val(responses[i].response)) : i \in DOMAIN responses})
        zeros       == [b \in StatusClasses |-> 0]
    IN  IF request_pks = <<>> THEN EmptyDict
        ELSE add_status_rows(zeros, codes, responses)

status_distribution(rows, filters) ==
    LET request_pks == filter_requests(rows, filters)
        responses   == SelectSeq(request_pks,
                           LAMBDA r : IF r.response = NULL THEN FALSE
                                      ELSE Val(r.response) # NULL)
        codes       == ascending({Val(Val(responses[i].response)) : i \in DOMAIN responses})
        zeros       == [b \in StatusClasses |-> 0]
    IN  IF request_pks = <<>> THEN zeros
        ELSE add_status_rows(zeros, codes, responses)

(* ---- _request_time_percentiles, _sql_time_percentiles ---- *)
PercentileRanks == {25, 50, 75, 95, 99}

(* round(x, 2): a value held in hundredths is its own rounding. *)
round_2(hundredths) == hundredths

non_null(column) == SelectSeq(column, LAMBDA t : t # NULL)
values_of(column) == [k \in DOMAIN column |-> Val(column[k])]

request_time_percentiles(rows, filters) ==
    LET qs    == filter_requests(rows, filters)
        times == order_ascending(values_of(non_null([k \in DOMAIN qs |-> qs[k].time_taken])))
    IN  [rank \in PercentileRanks |-> round_2(percentile(times, rank))]

RECURSIVE all_queries(_)
all_queries(qs) ==
    IF qs = <<>> THEN <<>> ELSE Head(qs).queries \o all_queries(Tail(qs))

sql_time_percentiles(rows, filters) ==
    LET pks   == filter_requests(rows, filters)
        times == order_ascending(values_of(non_null(all_queries(pks))))
    IN  IF pks = <<>> THEN [rank \in PercentileRanks |-> 0]
        ELSE [rank \in PercentileRanks |-> round_2(percentile(times, rank))]

(* ---- the top-N-by-view reports ---- *)
TopViews == 5

views_of(qs) == {qs[i].view_name : i \in DOMAIN qs}
of_view(qs, v) == SelectSeq(qs, LAMBDA r : r.view_name = v)

(* Sum('queries__time_taken') of one request: NULL without a query time *)
db_time_of(r) ==
    IF non_null(r.queries) = <<>> THEN NULL
    ELSE Some(SumSeq(values_of(non_null(r.queries))))

(* Count('queries') of one request *)
num_queries_of(r) == Len(r.queries)

(* .order_by('-aggregate')[:5]: the orders the grouped query may come in,  *)
(* views of equal aggregate in any order, cut to the first five.           *)
top_views(views, Aggregate(_)) ==
    {IF Len(v) <= TopViews THEN v ELSE SubSeq(v, 1, TopViews) :
        v \in {w \in RowOrders(views) :
                  \A i, j \in DOMAIN w : i < j => Aggregate(w[i]) >= Aggregate(w[j])}}

(* .order_by('-own')[0]: the rows the query may give first *)
first_descending(candidates, Own(_)) ==
    {r \in Range(candidates) : \A q \in Range(candidates) : Own(q) <= Own(r)}

(* sorted(requests, key=lambda item: item.t, reverse=True): stable *)
RECURSIVE insert_descending(_, _)
insert_descending(sorted, item) ==
    IF sorted = <<>> THEN <<item>>
    ELSE IF item.t > Head(sorted).t THEN <<item>> \o sorted
    ELSE <<Head(sorted)>> \o insert_descending(Tail(sorted), item)

RECURSIVE sorted_reverse(_)
sorted_reverse(requests) ==
    IF requests = <<>> THEN <<>>
    ELSE insert_descending(sorted_reverse(SubSeq(requests, 1, Len(requests) - 1)),
                           requests[Len(requests)])

(* .order_by('own')[0] *)
first_ascending(candidates, Own(_)) ==
    {r \in Range(candidates) : \A q \in Range(candidates) : Own(r) <= Own(q)}

(* The reports a function may return: one for each order the grouped query *)
(* may come in and each choice of first row per view.  A view without a    *)
(* first row is an IndexError, caught when the function catches it.        *)
by_view_reports(views, Aggregate(_), First(_), Own(_), catches) ==
    UNION {
        LET usable == SelectSeq(top, LAMBDA v : First(v) # {})
        IN  IF usable # top /\ ~catches
            THEN {[raised |-> Some("IndexError"), requests |-> <<>>]}
            ELSE {[raised |-> NULL,
                   requests |-> sorted_reverse(
                       [k \in DOMAIN usable |->
                           [request |-> pick[usable[k]], t |-> Own(pick[usable[k]])]])] :
                     pick \in {f \in [Range(usable) ->
                                        UNION {First(v) : v \in Range(usable)}] :
                                 \A v \in Range(usable) : f[v] \in First(v)}}
        : top \in top_views(views, Aggregate)}

(* The report without .filter(max__isnull=False) on the grouped query. *)
longest_query_by_view_with_null(rows, filters) ==
    LET qs       == filter_requests(rows, filters)
        timed(v) == SelectSeq(of_view(qs, v), LAMBDA r : r.time_taken # NULL)
        own(r)   == Val(r.time_taken)
        max(v)   == IF timed(v) = <<>> THEN 0
                    ELSE SetMax({own(timed(v)[i]) : i \in DOMAIN timed(v)})
        first(v) == first_descending(timed(v), own)
    IN  by_view_reports(views_of(qs), max, first, own, FALSE)

longest_query_by_view(rows, filters) ==
    LET qs       == filter_requests(rows, filters)
        timed(v) == SelectSeq(of_view(qs, v), LAMBDA r : r.time_taken # NULL)
        own(r)   == Val(r.time_taken)
        max(v)   == SetMax({own(timed(v)[i]) : i \in DOMAIN timed(v)})
        views    == {v \in views_of(qs) : timed(v) # <<>>}
        first(v) == first_descending(timed(v), own)
    IN  by_view_reports(views, max, first, own, FALSE)

time_spent_in_db_by_view_ascending(rows, filters) ==
    LET qs       == filter_requests(rows, filters)
        timed(v) == SelectSeq(of_view(qs, v), LAMBDA r : db_time_of(r) # NULL)
        own(r)   == Val(db_time_of(r))
        t(v)     == SumSeq(values_of(non_null(all_queries(of_view(qs, v)))))
        views    == {v \in views_of(qs) : timed(v) # <<>> /\ t(v) >= 0}
        first(v) == first_ascending(timed(v), own)
    IN  by_view_reports(views, t, first, own, FALSE)

time_spent_in_db_by_view(rows, filters) ==
    LET qs       == filter_requests(rows, filters)
        timed(v) == SelectSeq(of_view(qs, v), LAMBDA r : db_time_of(r) # NULL)
        own(r)   == Val(db_time_of(r))
        t(v)     == SumSeq(values_of(non_null(all_queries(of_view(qs, v)))))
        views    == {v \in views_of(qs) : timed(v) # <<>> /\ t(v) >= 0}
        first(v) == first_descending(timed(v), own)
    IN  by_view_reports(views, t, first, own, FALSE)

num_queries_by_view(rows, filters) ==
    LET qs       == filter_requests(rows, filters)
        own(r)   == num_queries_of(r)
        t(v)     == Len(all_queries(of_view(qs, v)))
        first(v) == first_descending(of_view(qs, v), own)
    IN  by_view_reports(views_of(qs), t, first, own, TRUE)

(***************************************************************************)
(* SpecAggregates: requests are recorded with their responses and queries, *)
(* and one of the derived views of the summary is computed over the        *)
(* requests that pass the filters.                                         *)
(***************************************************************************)
MaxRecords == 3

(* The requests recorded: two of view v1 in the same hour, one 72 hours    *)
(* after the first and one a minute later, one without a time, one without *)
(* a response, one with a response without status, and status codes of     *)
(* every class, below 200 and above 599.                                   *)
SampleRecords ==
    { [path |-> "/a", method |-> "GET", view_name |-> "v1", start_time |-> 0,
       time_taken |-> Some(30), response |-> Some(Some(200)),
       queries |-> <<Some(5), Some(3)>>],
      [path |-> "/a", method |-> "GET", view_name |-> "v1", start_time |-> 30,
       time_taken |-> Some(60), response |-> Some(Some(404)),
       queries |-> <<Some(3)>>],
      [path |-> "/b", method |-> "POST", view_name |-> "v2", start_time |-> 4320,
       time_taken |-> NULL, response |-> Some(NULL),
       queries |-> <<>>],
      [path |-> "/b", method |-> "GET", view_name |-> "v2", start_time |-> 4321,
       time_taken |-> Some(1500), response |-> Some(Some(101)),
       queries |-> <<NULL>>],
      [path |-> "/a", method |-> "GET", view_name |-> "v3", start_time |-> 1440,
       time_taken |-> Some(10), response |-> NULL,
       queries |-> <<Some(9)>>],
      [path |-> "/b", method |-> "GET", view_name |-> "v1", start_time |-> 60,
       time_taken |-> Some(60), response |-> Some(Some(500)),
       queries |-> <<Some(5), Some(3)>>],
      [path |-> "/a", method |-> "POST", view_name |-> "v3", start_time |-> 59,
       time_taken |-> Some(-1), response |-> Some(Some(300)),
       queries |-> <<Some(2), NULL>>],
      [path |-> "/b", method |-> "POST", view_name |-> "v2", start_time |-> 4320,
       time_taken |-> Some(40), response |-> Some(Some(600)),
       queries |-> <<Some(0)>>] }

AggFilters == {<<>>, <<[typ |-> "PathFilter", value |-> "/a"]>>}

AggOthers == <<fpVars, npVars, pctVars, histVars, reqVars, sortVars, objVars, sumVars, sessVars, migVars, relVars, clrVars>>

AggInit == /\ records = <<>>
           /\ report = NotRun
           /\ FpIdle /\ NpIdle /\ PctIdle /\ HistIdle /\ ReqIdle /\ SortIdle /\ ObjIdle /\ SumIdle /\ SessIdle /\ MigIdle /\ RelIdle /\ ClrIdle

InsertRequest(r) ==
    /\ ~report.run
    /\ Len(records) < MaxRecords
    /\ records' = Append(records,
           [pk |-> Len(records) + 1, path |-> r.path, method |-> r.method,
            view_name |-> r.view_name, start_time |-> r.start_time,
            time_taken |-> r.time_taken, response |-> r.response,
            queries |-> r.queries])
    /\ UNCHANGED <<report, AggOthers>>

Computed(kind, filters, value) ==
    /\ ~report.run
    /\ report' = [run |-> TRUE, kind |-> kind, filters |-> filters, value |-> value]
    /\ UNCHANGED <<records, AggOthers>>

RequestTimeline ==
    \E filters \in AggFilters :
        Computed("timeline", filters, request_timeline(records, filters))

StatusDistribution ==
    \E filters \in AggFilters :
        Computed("status", filters, status_distribution(records, filters))

RequestTimePercentiles ==
    \E filters \in AggFilters :
        Computed("request_percentiles", filters, request_time_percentiles(records, filters))

SqlTimePercentiles ==
    \E filters \in AggFilters :
        Computed("sql_percentiles", filters, sql_time_percentiles(records, filters))

ResponseTimeHistogram ==
    \E filters \in AggFilters :
        LET qs == filter_requests(records, filters)
        IN  Computed("rt_hist", filters,
                     response_time_histogram([k \in DOMAIN qs |-> qs[k].time_taken]))

LongestQueryByView ==
    \E filters \in AggFilters :
        \E value \in longest_query_by_view(records, filters) :
            Computed("longest_queries_by_view", filters, value)

TimeSpentInDbByView ==
    \E filters \in AggFilters :
        \E value \in time_spent_in_db_by_view(records, filters) :
            Computed("most_time_spent_in_db", filters, value)

NumQueriesByView ==
    \E filters \in AggFilters :
        \E value \in num_queries_by_view(records, filters) :
            Computed("most_queries", filters, value)

AggNext == \/ \E r \in SampleRecords : InsertRequest(r)
           \/ RequestTimeline
           \/ StatusDistribution
           \/ RequestTimePercentiles
           \/ SqlTimePercentiles
           \/ ResponseTimeHistogram
           \/ LongestQueryByView
           \/ TimeSpentInDbByView
           \/ NumQueriesByView

SpecAggregates == AggInit /\ [][AggNext]_vars

(* The requests the report computed last was taken over. *)
Filtered == filter_requests(records, report.filters)

(* The status codes of the responses of the filtered requests, one entry   *)
(* per response with a status.                                             *)
StatusCodes ==
    LET responses == SelectSeq(Filtered,
                         LAMBDA r : IF r.response = NULL THEN FALSE
                                    ELSE Val(r.response) # NULL)
    IN  [k \in DOMAIN responses |-> Val(Val(responses[k].response))]

NumWithStatus(Holds(_)) == Cardinality({k \in DOMAIN StatusCodes : Holds(StatusCodes[k])})

ClassDigit(b) == CASE b = "2xx" -> 2 [] b = "3xx" -> 3 [] b = "4xx" -> 4 [] b = "5xx" -> 5

(* C17, as claimed: the distribution has the four keys, every response     *)
(* with a status is counted once, in the bucket of the first digit of its  *)
(* status code, and responses without status are counted nowhere.          *)
C17_StatusByFirstDigit ==
    (report.run /\ report.kind = "status") =>
        /\ DOMAIN report.value = StatusClasses
        /\ \A b \in StatusClasses :
              report.value[b] = NumWithStatus(LAMBDA sc : sc \div 100 = ClassDigit(b))
        /\ report.value["2xx"] + report.value["3xx"] + report.value["4xx"]
              + report.value["5xx"] = Len(StatusCodes)

(* C17, amended: the distribution has the four keys; a response with a     *)
(* status code from 200 to 499 is counted once in the bucket of its first  *)
(* digit, one with a status code of 500 or more once in 5xx, and responses *)
(* with a status code below 200 or without status are counted nowhere.     *)
C17_StatusDistribution ==
    (report.run /\ report.kind = "status") =>
        /\ DOMAIN report.value = StatusClasses
        /\ report.value["2xx"] = NumWithStatus(LAMBDA sc : 200 <= sc /\ sc <= 299)
        /\ report.value["3xx"] = NumWithStatus(LAMBDA sc : 300 <= sc /\ sc <= 399)
        /\ report.value["4xx"] = NumWithStatus(LAMBDA sc : 400 <= sc /\ sc <= 499)
        /\ report.value["5xx"] = NumWithStatus(LAMBDA sc : 500 <= sc)

(* Three requests with status 200, status 101 and a response without       *)
(* status: one count in 2xx and none elsewhere.                            *)
C17_Witness ==
    /\ report.run /\ report.kind = "status"
    /\ Len(Filtered) = 3
    /\ \E i, j, k \in DOMAIN Filtered :
          /\ Filtered[i].response = Some(Some(200))
          /\ Filtered[j].response = Some(Some(101))
          /\ Filtered[k].response = Some(NULL)
    /\ report.value = [b \in StatusClasses |-> IF b = "2xx" THEN 1 ELSE 0]

(* The start times of the filtered requests, and whether they span more    *)
(* than 72 hours.                                                          *)
StartTimes == {Filtered[i].start_time : i \in DOMAIN Filtered}
SpansOver72Hours ==
    \E a, b \in StartTimes : b - a > 72 * 60

(* The start of the hour, or of the day, that minute t lies in. *)
BucketStart(t) ==
    IF SpansOver72Hours THEN (t \div 1440) * 1440 ELSE (t \div 60) * 60

(* C18: the timeline has one bucket for each hour that holds a request     *)
(* when the start times span at most 72 hours, and for each day otherwise; *)
(* each bucket counts the requests that start in it, the buckets come in   *)
(* ascending order of their start, and the counts sum to the number of     *)
(* requests.                                                               *)
C18_TimelineBuckets ==
    (report.run /\ report.kind = "timeline") =>
        /\ {report.value[k].t : k \in DOMAIN report.value}
              = {BucketStart(t) : t \in StartTimes}
        /\ \A k \in DOMAIN report.value :
              report.value[k].count =
                  Cardinality({i \in DOMAIN Filtered :
                                  BucketStart(Filtered[i].start_time) = report.value[k].t})
        /\ \A j, k \in DOMAIN report.value :
              j < k => report.value[j].t < report.value[k].t
        /\ SumSeq([k \in DOMAIN report.value |-> report.value[k].count]) = Len(Filtered)

(* Requests at 0:00 and 1:00 and one exactly 72 hours after the first: the *)
(* timeline is hourly, with three buckets.                                 *)
C18_Witness ==
    /\ report.run /\ report.kind = "timeline"
    /\ StartTimes = {0, 60, 4320}
    /\ report.value = <<[t |-> 0, count |-> 1], [t |-> 60, count |-> 1],
                        [t |-> 4320, count |-> 1]>>

(* A minute more than 72 hours: the timeline is daily. *)
C18_WitnessDaily ==
    /\ report.run /\ report.kind = "timeline"
    /\ StartTimes = {0, 30, 4321}
    /\ report.value = <<[t |-> 0, count |-> 2], [t |-> 4320, count |-> 1]>>

(* No filtered request has a time, and none has a query with a time. *)
NoRequestTime == \A i \in DOMAIN Filtered : Filtered[i].time_taken = NULL
NoQueryTime ==
    \A i \in DOMAIN Filtered :
        \A k \in DOMAIN Filtered[i].queries : Filtered[i].queries[k] = NULL

(* C19: over an empty set of filtered requests no derived view fails: the  *)
(* timeline is the empty sequence, the status distribution has its four    *)
(* keys at 0, the histogram its six buckets at 0, and both percentile      *)
(* tables map 25, 50, 75, 95 and 99 to 0; the request percentiles are 0    *)
(* also when no filtered request has a time, and the query percentiles     *)
(* when no query of them has one.                                          *)
C19_EmptyIsZero ==
    report.run =>
        /\ (Filtered = <<>> /\ report.kind = "timeline") => report.value = <<>>
        /\ (Filtered = <<>> /\ report.kind = "status") =>
              /\ DOMAIN report.value = StatusClasses
              /\ \A b \in StatusClasses : report.value[b] = 0
        /\ (Filtered = <<>> /\ report.kind = "rt_hist") =>
              /\ Len(report.value) = 6
              /\ \A k \in DOMAIN report.value :
                    /\ report.value[k].label = histogram_buckets[k].label
                    /\ report.value[k].count = 0
        /\ (NoRequestTime /\ report.kind = "request_percentiles") =>
              /\ DOMAIN report.value = {25, 50, 75, 95, 99}
              /\ \A rank \in DOMAIN report.value : report.value[rank] = 0
        /\ (NoQueryTime /\ report.kind = "sql_percentiles") =>
              /\ DOMAIN report.value = {25, 50, 75, 95, 99}
              /\ \A rank \in DOMAIN report.value : report.value[rank] = 0
        /\ (Filtered = <<>> /\ report.kind \in {"longest_queries_by_view",
                                                 "most_time_spent_in_db", "most_queries"}) =>
              /\ report.value.raised = NULL
              /\ report.value.requests = <<>>

(* Requests are recorded and none passes the filter: the status            *)
(* distribution is four zeros.                                             *)
C19_Witness ==
    /\ report.run /\ report.kind = "status"
    /\ records # <<>>
    /\ Filtered = <<>>
    /\ report.value = [b \in StatusClasses |-> 0]

(* A request without a time is recorded: the request percentiles are 0. *)
C19_WitnessNoTime ==
    /\ report.run /\ report.kind = "request_percentiles"
    /\ Filtered # <<>>
    /\ NoRequestTime
    /\ report.value = [rank \in {25, 50, 75, 95, 99} |-> 0]

(* The by-view reports, the metric of a request under each, NULL when it   *)
(* has none, and the aggregate a view is ranked by.                        *)
ByViewKinds == {"longest_queries_by_view", "most_time_spent_in_db", "most_queries"}

QueryTimes(r) == SelectSeq(r.queries, LAMBDA t : t # NULL)

OwnMetric(r, kind) ==
    CASE kind = "longest_queries_by_view" -> r.time_taken
      [] kind = "most_time_spent_in_db" ->
            IF QueryTimes(r) = <<>> THEN NULL
            ELSE Some(SumSeq([k \in DOMAIN QueryTimes(r) |-> Val(QueryTimes(r)[k])]))
      [] kind = "most_queries" -> Some(Len(r.queries))

ViewRows(v) == {i \in DOMAIN Filtered : Filtered[i].view_name = v}

GroupAggregate(v, kind) ==
    LET measured == {i \in ViewRows(v) : OwnMetric(Filtered[i], kind) # NULL}
    IN  IF kind = "longest_queries_by_view"
        THEN SetMax({Val(OwnMetric(Filtered[i], kind)) : i \in measured})
        ELSE SumSeq([i \in DOMAIN Filtered |->
                        IF i \in measured THEN Val(OwnMetric(Filtered[i], kind)) ELSE 0])

(* C20, as claimed: in each by-view report the record chosen for a view is *)
(* a filtered record of that view whose own metric is at least the         *)
(* aggregate the view was ranked by.                                       *)
C20_RepresentativeReachesAggregate ==
    (report.run /\ report.kind \in ByViewKinds) =>
        \A k \in DOMAIN report.value.requests :
            LET item == report.value.requests[k]
            IN  /\ \E i \in DOMAIN Filtered : Filtered[i] = item.request
                /\ OwnMetric(item.request, report.kind) = Some(item.t)
                /\ item.t >= GroupAggregate(item.request.view_name, report.kind)

(* C20, amended: the record chosen for a view is a filtered record of that *)
(* view whose own metric is the largest of the view's records; in the      *)
(* longest-request report that is the aggregate the view was ranked by.    *)
C20_RepresentativeIsLargest ==
    (report.run /\ report.kind \in ByViewKinds) =>
        \A k \in DOMAIN report.value.requests :
            LET item == report.value.requests[k]
            IN  /\ \E i \in DOMAIN Filtered : Filtered[i] = item.request
                /\ OwnMetric(item.request, report.kind) = Some(item.t)
                /\ \A i \in ViewRows(item.request.view_name) :
                      OwnMetric(Filtered[i], report.kind) # NULL =>
                          Val(OwnMetric(Filtered[i], report.kind)) <= item.t
                /\ report.kind = "longest_queries_by_view" =>
                      item.t = GroupAggregate(item.request.view_name, report.kind)

(* Two requests of view v1 with query times 5 + 3 and 3: the view is       *)
(* ranked by 11 and represented by the request whose own sum is 8.         *)
C20_Witness ==
    /\ report.run /\ report.kind = "most_time_spent_in_db"
    /\ Len(Filtered) = 2
    /\ Len(report.value.requests) = 1
    /\ report.value.requests[1].request.view_name = "v1"
    /\ report.value.requests[1].t = 8
    /\ GroupAggregate("v1", report.kind) = 11

(***************************************************************************)
(* SummaryView.post and SummaryView._create_context                        *)
(***************************************************************************)

(* The named time ranges, each with its seconds. *)
TIME_RANGE_PRESETS == [k \in {"15m", "1h", "1d"} |->
                          CASE k = "15m" -> 900 [] k = "1h" -> 3600 [] k = "1d" -> 86400]

(* SecondsFilter(seconds).as_dict() *)
SecondsFilter_as_dict(seconds) == [typ |-> "SecondsFilter", value |-> seconds]

(* The state post() saves; nothing in it raises. *)
summary_post_filters(POST) ==
    IF dict_get(POST, "time_preset", "") \in DOMAIN TIME_RANGE_PRESETS
    THEN [raised |-> NULL,
          filters |-> [k \in {"time_preset"} |->
                          SecondsFilter_as_dict(TIME_RANGE_PRESETS[POST["time_preset"]])]]
    ELSE IF "clear_filters" \in DOMAIN POST
    THEN [raised |-> NULL, filters |-> EmptyDict]
    ELSE [raised |-> NULL, filters |-> filters_from_request(POST)]

NoSummaryContext == [filters |-> EmptyDict, active_preset |-> NULL, num_requests |-> 0,
                     has_data |-> FALSE, request_percentiles |-> <<>>,
                     sql_percentiles |-> <<>>, timeline |-> <<>>, status |-> <<>>,
                     rt_hist |-> <<>>, longest_queries_by_view |-> <<>>,
                     most_time_spent_in_db |-> <<>>, most_queries |-> <<>>]

(* The contexts _create_context may build from a filter state over the     *)
(* recorded requests, one for each outcome of the by-view reports; the     *)
(* averages and the method distribution are left out.                      *)
summary_create_context(state, rows) ==
    LET rebuilt == rebuild_filters(state)
        filters == rebuilt.filters
        qs      == filter_requests(rows, filters)
    IN  IF rebuilt.raised # NULL
        THEN {[raised |-> rebuilt.raised, context |-> NoSummaryContext]}
        ELSE {IF longest.raised # NULL
              THEN [raised |-> longest.raised, context |-> NoSummaryContext]
              ELSE IF db.raised # NULL
              THEN [raised |-> db.raised, context |-> NoSummaryContext]
              ELSE [raised |-> NULL,
                    context |->
                      [filters |-> state,
                       active_preset |-> IF "time_preset" \in DOMAIN state
                                         THEN Some(state["time_preset"].value) ELSE NULL,
                       num_requests |-> Len(qs),
                       has_data |-> Len(qs) > 0,
                       request_percentiles |-> request_time_percentiles(rows, filters),
                       sql_percentiles |-> sql_time_percentiles(rows, filters),
                       timeline |-> request_timeline(rows, filters),
                       status |-> status_distribution(rows, filters),
                       rt_hist |-> response_time_histogram(
                                       [k \in DOMAIN qs |-> qs[k].time_taken]),
                       longest_queries_by_view |-> longest.requests,
                       most_time_spent_in_db |-> db.requests,
                       most_queries |-> num.requests]] :
                 longest \in longest_query_by_view(rows, filters),
                 db \in time_spent_in_db_by_view(rows, filters),
                 num \in num_queries_by_view(rows, filters)}

SumOthers == <<fpVars, npVars, pctVars, histVars, reqVars, sortVars, objVars, aggVars, sessVars, migVars, relVars, clrVars>>

(* SummaryView.get *)
SummaryGet ==
    /\ ~summary.run
    /\ \E outcome \in summary_create_context(filters_manager_get(summary_filters), records) :
           summary' = [run |-> TRUE, method |-> "GET", params |-> EmptyDict,
                       previous |-> summary_filters, outcome |-> outcome]
    /\ UNCHANGED <<summary_filters, SumOthers>>

(* A post() that adds what it is given to the state saved before. *)
SummaryPost_merging(POST) ==
    /\ ~summary.run
    /\ LET posted == summary_post_filters(POST)
       IN  IF posted.raised # NULL
           THEN /\ summary' = [run |-> TRUE, method |-> "POST", params |-> POST,
                               previous |-> summary_filters,
                               outcome |-> [raised |-> posted.raised,
                                            context |-> NoSummaryContext]]
                /\ UNCHANGED summary_filters
           ELSE /\ summary_filters' = filters_manager_save(summary_filters,
                                       dict_merge(summary_filters, posted.filters))
                /\ \E outcome \in summary_create_context(summary_filters', records) :
                       summary' = [run |-> TRUE, method |-> "POST", params |-> POST,
                                   previous |-> summary_filters, outcome |-> outcome]
    /\ UNCHANGED SumOthers

(* SummaryView.post *)
SummaryPost(POST) ==
    /\ ~summary.run
    /\ LET posted == summary_post_filters(POST)
       IN  IF posted.raised # NULL
           THEN /\ summary' = [run |-> TRUE, method |-> "POST", params |-> POST,
                               previous |-> summary_filters,
                               outcome |-> [raised |-> posted.raised,
                                            context |-> NoSummaryContext]]
                /\ UNCHANGED summary_filters
           ELSE /\ summary_filters' = filters_manager_save(summary_filters, posted.filters)
                /\ \E outcome \in summary_create_context(summary_filters', records) :
                       summary' = [run |-> TRUE, method |-> "POST", params |-> POST,
                                   previous |-> summary_filters, outcome |-> outcome]
    /\ UNCHANGED SumOthers

SummaryRespond ==
    /\ summary.run
    /\ summary' = NotRun
    /\ UNCHANGED <<summary_filters, SumOthers>>

(* filters_manager.save(request, state) on the summary filters, by a       *)
(* caller other than the view                                              *)
SummaryStoreSave(state) ==
    /\ ~summary.run
    /\ summary_filters' = filters_manager_save(summary_filters, state)
    /\ UNCHANGED <<summary, SumOthers>>

(***************************************************************************)
(* SpecViews: the requests view and the summary view serve one session,    *)
(* each over its own key, one request after the other.  The requests view  *)
(* gets the queries that touch the page size, the sort criteria and the    *)
(* filter form; the summary view gets its form with at most MaxParams      *)
(* fields.  Between requests a caller may save any state under either key. *)
(***************************************************************************)
ViewsGetDicts  == {EmptyDict} \cup DictsOver({"show"}) \cup DictsOver({"view_style"})
ViewsPostDicts == {EmptyDict} \cup DictsOver({"clear_filters"})
                      \cup DictsOver({"filter-1-typ", "filter-1-value"})

SummaryPostKeys  == {"time_preset", "clear_filters"} \cup FilterFormKeys
SummaryPostDicts == QueryDicts(SummaryPostKeys)

SummarySavedStates == {[k \in {"9"} |-> StalePredicate],
                       [k \in {"1"} |-> [typ |-> "PathFilter", value |-> "/a"]]}

(* The recorded requests the summary is made of: none, or one old request   *)
(* and one of the last hour.                                               *)
ViewsRecords == {r \in SampleRecords : r.start_time = 0 \/ r.start_time > Clock - 60}
ViewsTables  == {<<>>} \cup
                {<<[pk |-> 1] @@ old, [pk |-> 2] @@ new>> :
                    old \in {r \in ViewsRecords : r.start_time = 0},
                    new \in {r \in ViewsRecords : r.start_time # 0}}

ViewsInit == /\ session = EmptyDict
             /\ request_sort = NULL
             /\ request = NotRun
             /\ previous_session = EmptyDict
             /\ response = NotRun
             /\ summary_filters = EmptyDict
             /\ summary = NotRun
             /\ records \in ViewsTables
             /\ report = NotRun
             /\ FpIdle /\ NpIdle /\ PctIdle /\ HistIdle /\ SortIdle /\ ObjIdle /\ SessIdle /\ MigIdle /\ RelIdle /\ ClrIdle

ViewsNext == \/ \E GET \in ViewsGetDicts : ~summary.run /\ Get(GET)
             \/ \E POST \in ViewsPostDicts : ~summary.run /\ Post(POST)
             \/ Respond
             \/ \E state \in SavedStates : StoreSave(state)
             \/ ~request.run /\ SummaryGet
             \/ \E POST \in SummaryPostDicts : ~request.run /\ SummaryPost(POST)
             \/ SummaryRespond
             \/ \E state \in SummarySavedStates : SummaryStoreSave(state)

SpecViews == ViewsInit /\ [][ViewsNext]_vars

(* A filter state with a predicate entry of no known variant. *)
HasStalePredicate(state) == \E k \in DOMAIN state \ non_filter_keys :
                                state[k].typ \notin FilterTypes

(* A filter state whose page size is a text that is no integer. *)
ShowNotInteger(state) == /\ "show" \in DOMAIN state
                         /\ state["show"] \notin {"", "2", "7", "10", "50", "100"}

RequestsHandled == request.run /\ response.run
SummaryHandled  == summary.run

C12_WitnessSummary ==
    /\ SummaryHandled /\ HasStalePredicate(summary_filters)
    /\ summary.outcome.raised = Some("UnknownFilterType")

(* The requests view has failed on the page size before the stale entry. *)
C12_WitnessValueError ==
    /\ RequestsHandled /\ HasStalePredicate(session) /\ ShowNotInteger(session)
    /\ response.outcome.raised = Some("ValueError")

(* A POST to the summary view that names a preset the table does not hold. *)
UnknownPresetPosted ==
    /\ summary.run /\ summary.method = "POST"
    /\ "time_preset" \in DOMAIN summary.params
    /\ summary.params["time_preset"] \notin DOMAIN TIME_RANGE_PRESETS

(* C13: a POST that selects a time-range preset by a name the preset table *)
(* does not hold fails with UnknownPreset.                                 *)
C13_UnknownPresetFails ==
    UnknownPresetPosted => summary.outcome.raised = Some("UnknownPreset")

(* What the code does with such a POST: it saves the state of the rest of  *)
(* the form, the empty state when there is none, and renders.              *)
C13_UnknownPresetIgnored ==
    UnknownPresetPosted =>
        /\ summary.outcome.raised # Some("UnknownPreset")
        /\ "time_preset" \notin DOMAIN summary_filters
        /\ summary_filters =
               IF "clear_filters" \in DOMAIN summary.params THEN EmptyDict
               ELSE filters_from_request(summary.params)

C13_WitnessIgnored ==
    /\ UnknownPresetPosted
    /\ summary.previous # EmptyDict /\ summary_filters = EmptyDict
    /\ summary.outcome.raised = NULL

(* C24: after a POST to the summary view the saved summary filter state   *)
(* is one time_preset entry with the seconds of the preset when the POST   *)
(* names a preset of the table, else empty when it holds clear_filters,    *)
(* else the predicates of its form; nothing else is in it, whatever was    *)
(* saved before.                                                           *)
C24_SummaryPostReplacesAll ==
    (summary.run /\ summary.method = "POST") =>
        LET POST == summary.params
        IN  IF "time_preset" \in DOMAIN POST /\ POST["time_preset"] \in {"15m", "1h", "1d"}
            THEN /\ DOMAIN summary_filters = {"time_preset"}
                 /\ summary_filters["time_preset"].typ = "SecondsFilter"
                 /\ summary_filters["time_preset"].value =
                        TIME_RANGE_PRESETS[POST["time_preset"]]
            ELSE IF "clear_filters" \in DOMAIN POST
            THEN summary_filters = EmptyDict
            ELSE summary_filters = filters_from_request(POST)

(* A preset posted over a saved state of another entry, which is gone. *)
C24_Witness ==
    /\ summary.run /\ summary.method = "POST"
    /\ "time_preset" \in DOMAIN summary.params
    /\ summary.previous # EmptyDict
    /\ "time_preset" \notin DOMAIN summary.previous
    /\ DOMAIN summary_filters = {"time_preset"}

(* A form posted over a saved preset, which is gone. *)
C24_WitnessForm ==
    /\ summary.run /\ summary.method = "POST"
    /\ "time_preset" \in DOMAIN summary.previous
    /\ summary_filters # EmptyDict
    /\ "time_preset" \notin DOMAIN summary_filters

(* The last request is a POST of the filter form: some key starts with     *)
(* 'filter-' and clear_filters is not among the keys.                      *)
IsFilterPost ==
    /\ request.run /\ request.method = "POST"
    /\ "clear_filters" \notin DOMAIN request.params
    /\ DOMAIN request.params \cap FilterFormKeys # {}

(* C31: a filter-form POST saves the show, order_by, order_dir and         *)
(* view_style entries of the previous state with their previous values,    *)
(* whatever the POST carries for them, together with exactly the           *)
(* predicates parsed from the form; a previous predicate that the form     *)
(* does not carry is gone.                                                 *)
C31_FilterPostReplacesPredicates ==
    IsFilterPost =>
        LET parsed == filters_from_request(request.params)
        IN  /\ \A k \in non_filter_keys : Untouched(k)
            /\ PredicateKeys(session) = DOMAIN parsed
            /\ \A k \in DOMAIN parsed : session[k] = parsed[k]
            /\ \A k \in PredicateKeys(previous_session) \ DOMAIN parsed :
                   k \notin DOMAIN session

(* A filter form with predicate 2 on a state with show and predicate 1:    *)
(* show stays, predicate 1 is gone, predicate 2 is there.                  *)
C31_Witness ==
    /\ IsFilterPost
    /\ DOMAIN previous_session = {"show", "1"}
    /\ DOMAIN session = {"show", "2"}
    /\ session["show"] = previous_session["show"]
    /\ session["2"] = [typ |-> "MethodFilter", value |-> "GET"]

(* A filter form that also carries show=50 and no complete predicate, on   *)
(* a state with show=10 and a predicate: show=10 is all that is left.      *)
C31_WitnessShowIgnored ==
    /\ IsFilterPost
    /\ request.params = [k \in {"show", "filter-1-typ"} |->
                            IF k = "show" THEN "50" ELSE "PathFilter"]
    /\ PredicateKeys(previous_session) # {}
    /\ previous_session["show"] = "10"
    /\ session = [show |-> "10"]


(* A stored sort list is well formed: each entry has a field and a dir and *)
(* nothing else, and its dir is ASC or DESC.                               *)
WellFormedSortList(entries) ==
    \A k \in DOMAIN entries :
        /\ DOMAIN entries[k] = {"field", "dir"}
        /\ entries[k]["dir"] \in {"ASC", "DESC"}

(* C25: the persisted sort list of the requests view is at all times a     *)
(* sequence of {field, dir} entries whose dir is ASC or DESC.              *)
C25_SortListWellFormed ==
    request_sort # NULL => WellFormedSortList(Val(request_sort))

(* What the code keeps instead: the persisted sort list is a non-empty     *)
(* list, whatever its entries are.                                         *)
C25_SortListNonEmpty ==
    request_sort # NULL => Val(request_sort) # <<>>

(* A list with an entry of no field and an unknown dir is persisted, and   *)
(* the request that follows it fails on item['field'].                     *)
C25_WitnessKeyError ==
    /\ request.run
    /\ "sort_criteria" \notin DOMAIN request.params
    /\ request_sort = Some(<<[dir |-> "sideways"]>>)
    /\ response.outcome.raised = Some("KeyError")

(* The last request carries sort_criteria = [] *)
EmptySortCriteria(method) ==
    /\ request.run /\ request.method = method
    /\ "sort_criteria" \in DOMAIN request.params
    /\ request.params["sort_criteria"] = JsonEmptyList

(* The last request is a GET without sort_criteria and with order_by or    *)
(* order_dir.                                                              *)
LegacySortGet ==
    /\ request.run /\ request.method = "GET"
    /\ "sort_criteria" \notin DOMAIN request.params
    /\ DOMAIN request.params \cap {"order_by", "order_dir"} # {}

(* C32: after any sequence of GETs and POSTs the persisted sort list is    *)
(* not empty: a GET with an empty list leaves the persisted list as it     *)
(* was, a POST with an empty list persists the default list, a legacy GET  *)
(* persists a list of one entry; so the listing is always sorted by a sort *)
(* list and the RuntimeError of the legacy order_by branch never reaches   *)
(* the caller, whatever order_by the state holds.                          *)
C32_PersistedSortNeverEmpty ==
    /\ request_sort # NULL => Val(request_sort) # <<>>
    /\ get_sort_list(request_sort) # <<>>
    /\ EmptySortCriteria("GET") => request_sort = request.previous_sort
    /\ EmptySortCriteria("POST") => request_sort = Some(DEFAULT_SORT_LIST)
    /\ LegacySortGet => request_sort # NULL /\ Len(Val(request_sort)) = 1
    /\ response.run => response.outcome.raised # Some("RuntimeError")

(* A GET with an empty list on a state whose order_by is no sort option    *)
(* and whose persisted list is not the default: the list stays and the     *)
(* request is served.                                                      *)
C32_Witness ==
    /\ EmptySortCriteria("GET")
    /\ "order_by" \in DOMAIN session /\ session["order_by"] \notin SORT_OPTIONS
    /\ request.previous_sort = Some(<<[field |-> "path", dir |-> "ASC"]>>)
    /\ request_sort = request.previous_sort
    /\ response.outcome.raised = NULL

(* A POST with an empty list replaces a persisted list by the default. *)
C32_WitnessPost ==
    /\ EmptySortCriteria("POST")
    /\ request.previous_sort = Some(<<[field |-> "path", dir |-> "ASC"]>>)
    /\ request_sort = Some(DEFAULT_SORT_LIST)
    /\ response.outcome.raised = NULL

(* A legacy GET with an order_by that is no sort option persists it as a   *)
(* list of one entry and is served.                                        *)
C32_WitnessLegacy ==
    /\ LegacySortGet
    /\ request_sort = Some(<<[field |-> "bogus", dir |-> "DESC"]>>)
    /\ session["order_by"] = "bogus"
    /\ response.outcome.raised = NULL

(* PER_PAGE_OPTIONS *)
PER_PAGE_OPTIONS == {10, 25, 50, 100}

(* C26: whenever the requests view builds its context, the per_page value  *)
(* it hands to pagination is one of the allowed page sizes, and it is 25   *)
(* when no page size is stored.                                            *)
C26_PerPageAllowed ==
    (request.run /\ response.outcome.raised = NULL) =>
        /\ response.outcome.context.per_page \in PER_PAGE_OPTIONS
        /\ "show" \notin DOMAIN session =>
               response.outcome.context.per_page = DEFAULT_PER_PAGE

(* What the code keeps instead: per_page is the stored page size read as   *)
(* an integer, whatever integer that is, and 25 when none is stored.       *)
C26_PerPageIsStoredShow ==
    (request.run /\ response.outcome.raised = NULL) =>
        response.outcome.context.per_page =
            IF "show" \in DOMAIN session /\ session["show"] # ""
            THEN int_of(session["show"]).value
            ELSE DEFAULT_PER_PAGE

(* A GET with per_page=7 is served with pages of 7. *)
C26_WitnessSeven ==
    /\ request.run /\ request.method = "GET"
    /\ "per_page" \in DOMAIN request.params
    /\ response.outcome.raised = NULL
    /\ response.outcome.context.per_page = 7

(***************************************************************************)
(* SpecSessions: two requests are in flight at once, each on one of two    *)
(* sessions.  A session holds one value under each key; a get reads one    *)
(* key and a save replaces one key, each as one step, and the steps of the *)
(* two handlers interleave in any order.  get() saves the sort list, reads *)
(* the filter state and saves it; post() reads the filter state, saves the *)
(* sort list and saves the filter state; the summary's post() saves its    *)
(* filter state.  Every save call is logged in the order it ran.           *)
(***************************************************************************)
SESSION_KEY_FILTERS == "request_filters"
SESSION_KEY_SORT    == "request_sort"

(* The summary view keeping its state under the key of the requests view. *)
filters_key_shared == SESSION_KEY_FILTERS

(* SummaryView.filters_key *)
filters_key == "summary_filters"

SessionIds == {"s1", "s2"}
Callers    == {"a", "b"}

SessionKeyNames == {"request_filters", "request_sort", "summary_filters"}
EmptySession    == [k \in SessionKeyNames |-> <<>>]

FilterForm == dict_merge([k \in {"filter-1-typ"} |-> "PathFilter"],
                         [k \in {"filter-1-value"} |-> "/a"])

CallerRequests ==
    { [view |-> "requests", method |-> "GET",  params |-> [show |-> "10"]],
      [view |-> "requests", method |-> "GET",  params |-> [sort_criteria |-> JsonSortList]],
      [view |-> "requests", method |-> "POST", params |-> FilterForm],
      [view |-> "requests", method |-> "POST", params |-> [clear_filters |-> "1"]],
      [view |-> "summary",  method |-> "POST", params |-> [time_preset |-> "1h"]] }

(* The session accesses of a handler, in the order of its code. *)
HandlerSteps(view, method) ==
    IF view = "summary" THEN <<"save">>
    ELSE IF method = "GET" THEN <<"sort", "read", "save">>
    ELSE <<"read", "sort", "save">>

Waiting == [run |-> FALSE, done |-> FALSE]

(* The access a running handler makes next; "render" when none is left. *)
NextStep(caller) ==
    LET steps == HandlerSteps(caller.view, caller.method)
    IN  IF caller.at <= Len(steps) THEN steps[caller.at] ELSE "render"

AtStep(c, step) == callers[c].run /\ NextStep(callers[c]) = step

SessOthers == <<fpVars, npVars, pctVars, histVars, reqVars, sortVars, objVars, aggVars, sumVars, migVars, relVars, clrVars>>

SessInit == /\ sessions = [s \in SessionIds |-> EmptySession]
            /\ callers = [c \in Callers |-> Waiting]
            /\ saves = <<>>
            /\ FpIdle /\ NpIdle /\ PctIdle /\ HistIdle /\ ReqIdle /\ SortIdle /\ ObjIdle /\ AggIdle /\ SumIdle /\ MigIdle /\ RelIdle /\ ClrIdle

(* A request reaches a view. *)
Begin(c, sid, req) ==
    /\ callers[c] = Waiting
    /\ callers' = [callers EXCEPT ![c] =
                      [run |-> TRUE, done |-> FALSE, sid |-> sid, view |-> req.view,
                       method |-> req.method, params |-> req.params, at |-> 1,
                       read |-> EmptyDict]]
    /\ UNCHANGED <<sessions, saves, SessOthers>>

(* self.filters_manager.get(request) *)
ReadFilters(c) ==
    /\ AtStep(c, "read")
    /\ callers' = [callers EXCEPT
                      ![c].read = filters_manager_get(
                                      sessions[callers[c].sid][SESSION_KEY_FILTERS]),
                      ![c].at = @ + 1]
    /\ UNCHANGED <<sessions, saves, SessOthers>>

(* The sort_criteria / order_by block of get() and post(), with its        *)
(* self._save_sort_list(request, sort_list) when it makes the call.        *)
SaveSortList(c) ==
    /\ AtStep(c, "sort")
    /\ LET caller == callers[c]
           stored == sessions[caller.sid][SESSION_KEY_SORT]
           saved  == IF caller.method = "GET" THEN get_sort(caller.params, stored)
                     ELSE post_sort(caller.params, stored)
           called == IF caller.method = "GET" THEN get_sort(caller.params, NULL) # NULL
                     ELSE post_sort(caller.params, NULL) # NULL
       IN  /\ sessions' = [sessions EXCEPT ![caller.sid][SESSION_KEY_SORT] = saved]
           /\ saves' = IF called
                       THEN Append(saves, [caller |-> c, sid |-> caller.sid,
                                           key |-> SESSION_KEY_SORT, passed |-> saved])
                       ELSE saves
    /\ callers' = [callers EXCEPT ![c].at = @ + 1]
    /\ UNCHANGED SessOthers

(* self.filters_manager.save(request, filters) of a handler that reads the *)
(* filter state again when it saves.                                       *)
SaveFilters_rereading(c) ==
    /\ AtStep(c, "save") /\ callers[c].view = "requests"
    /\ LET caller == callers[c]
           now    == filters_manager_get(sessions[caller.sid][SESSION_KEY_FILTERS])
           state  == IF caller.method = "GET" THEN get_filters(caller.params, now)
                     ELSE post_filters(caller.params, now)
       IN  /\ sessions' = [sessions EXCEPT ![caller.sid][SESSION_KEY_FILTERS] =
                              filters_manager_save(@, state)]
           /\ saves' = Append(saves, [caller |-> c, sid |-> caller.sid,
                                      key |-> SESSION_KEY_FILTERS, passed |-> state])
    /\ callers' = [callers EXCEPT ![c].at = @ + 1]
    /\ UNCHANGED SessOthers

(* self.filters_manager.save(request, filters), with the filters computed  *)
(* from what the handler read before.                                      *)
SaveFilters(c) ==
    /\ AtStep(c, "save") /\ callers[c].view = "requests"
    /\ LET caller == callers[c]
           state  == IF caller.method = "GET" THEN get_filters(caller.params, caller.read)
                     ELSE post_filters(caller.params, caller.read)
       IN  /\ sessions' = [sessions EXCEPT ![caller.sid][SESSION_KEY_FILTERS] =
                              filters_manager_save(@, state)]
           /\ saves' = Append(saves, [caller |-> c, sid |-> caller.sid,
                                      key |-> SESSION_KEY_FILTERS, passed |-> state])
    /\ callers' = [callers EXCEPT ![c].at = @ + 1]
    /\ UNCHANGED SessOthers

(* SummaryView.post: self.filters_manager.save(request, filters) *)
SaveSummaryFilters(c) ==
    /\ AtStep(c, "save") /\ callers[c].view = "summary"
    /\ LET caller == callers[c]
           state  == summary_post_filters(caller.params).filters
       IN  /\ sessions' = [sessions EXCEPT ![caller.sid][filters_key] =
                              filters_manager_save(@, state)]
           /\ saves' = Append(saves, [caller |-> c, sid |-> caller.sid,
                                      key |-> filters_key, passed |-> state])
    /\ callers' = [callers EXCEPT ![c].at = @ + 1]
    /\ UNCHANGED SessOthers

(* return render(...): the handler is through. *)
Render(c) ==
    /\ AtStep(c, "render")
    /\ callers' = [callers EXCEPT ![c].run = FALSE, ![c].done = TRUE]
    /\ UNCHANGED <<sessions, saves, SessOthers>>

SessNext == \/ \E c \in Callers, sid \in SessionIds, req \in CallerRequests : Begin(c, sid, req)
            \/ \E c \in Callers : ReadFilters(c)
            \/ \E c \in Callers : SaveSortList(c)
            \/ \E c \in Callers : SaveFilters(c)
            \/ \E c \in Callers : SaveSummaryFilters(c)
            \/ \E c \in Callers : Render(c)

SpecSessions == SessInit /\ [][SessNext]_vars

(* The saves of the request filter state of a session, in the order made. *)
FilterSaves(s) == SelectSeq(saves, LAMBDA w : w.sid = s /\ w.key = "request_filters")

(* The keys of the filter state a request sets itself. *)
SubmittedKeys(params) ==
    (DOMAIN params \cap {"show", "order_by", "order_dir", "view_style"})
        \cup (IF "per_page" \in DOMAIN params THEN {"show"} ELSE {})
        \cup {i \in {"1", "2"} : ("filter-" \o i \o "-typ") \in DOMAIN params}

AllDone == \A c \in Callers : callers[c].done

C15_WitnessRead ==
    \E s \in SessionIds :
        /\ AllDone
        /\ Len(FilterSaves(s)) = 2
        /\ \E k \in DOMAIN FilterSaves(s)[1].passed :
               /\ k \in DOMAIN sessions[s]["request_filters"]
               /\ k \in DOMAIN callers[FilterSaves(s)[2].caller].read
               /\ k \notin SubmittedKeys(callers[FilterSaves(s)[2].caller].params)

(* The keys of a session whose value a step changes. *)
ChangedKeys(s) == {k \in SessionKeyNames : sessions'[s][k] # sessions[s][k]}

(* The key the next access of a running handler saves. *)
KeySaved(caller) ==
    CASE NextStep(caller) = "sort" -> "request_sort"
      [] NextStep(caller) = "save" /\ caller.view = "requests" -> "request_filters"
      [] NextStep(caller) = "save" /\ caller.view = "summary" -> "summary_filters"
      [] OTHER -> "none"

C16_WitnessSessions ==
    /\ AllDone
    /\ callers["a"].sid # callers["b"].sid
    /\ \A c \in Callers :
           /\ callers[c].view = "requests" /\ callers[c].method = "GET"
           /\ sessions[callers[c].sid]["request_filters"] =
                  get_filters(callers[c].params, EmptyDict)

(***************************************************************************)
(* SpecTopViews: the three by-view reports over tables that hold up to     *)
(* one view more than the reports keep.  A table holds the rows of any     *)
(* choice of views: views of equal aggregate, a view without a request     *)
(* time and without a query time, a view without queries, and a view of    *)
(* two requests.                                                           *)
(***************************************************************************)
TableViews == 1..(TopViews + 1)

ViewNames == <<"w1", "w2", "w3", "w4", "w5", "w6", "w7", "w8">>

ViewRow(i, taken, query_times) ==
    [path |-> IF i % 2 = 0 THEN "/a" ELSE "/b", method |-> "GET",
     view_name |-> ViewNames[i], start_time |-> i, time_taken |-> taken,
     response |-> NULL, queries |-> query_times]

RowsOfView(i) ==
    IF i = 4 THEN <<ViewRow(i, NULL, <<NULL>>)>>
    ELSE IF i = 6 THEN <<ViewRow(i, Some(10), <<>>)>>
    ELSE IF i = 2 THEN <<ViewRow(i, Some(5), <<>>),
                         ViewRow(i, Some(30), <<Some(2), Some(1)>>)>>
    ELSE <<ViewRow(i, Some(10 * ((i % 3) + 1)), <<Some(i % 3), Some(1)>>)>>

RECURSIVE RowsOfViews(_, _)
RowsOfViews(V, i) ==
    IF i \notin TableViews THEN <<>>
    ELSE (IF i \in V THEN RowsOfView(i) ELSE <<>>) \o RowsOfViews(V, i + 1)

TopTables == {[k \in DOMAIN RowsOfViews(V, 1) |-> [pk |-> k] @@ RowsOfViews(V, 1)[k]] :
                 V \in SUBSET TableViews}

TopInit == /\ records \in TopTables
           /\ report = NotRun
           /\ FpIdle /\ NpIdle /\ PctIdle /\ HistIdle /\ ReqIdle /\ SortIdle /\ ObjIdle /\ SumIdle /\ SessIdle /\ MigIdle /\ RelIdle /\ ClrIdle

TopNext == \/ LongestQueryByView
           \/ TimeSpentInDbByView
           \/ NumQueriesByView

SpecTopViews == TopInit /\ [][TopNext]_vars

(* The filtered records of a view that have the metric of a report. *)
Measured(v, kind) == {i \in ViewRows(v) : OwnMetric(Filtered[i], kind) # NULL}

(* The views of the filtered records whose aggregate is not null. *)
RankedViews(kind) ==
    {v \in {Filtered[i].view_name : i \in DOMAIN Filtered} :
        kind = "most_queries" \/ Measured(v, kind) # {}}

ReportedViews == {report.value.requests[k].request.view_name :
                     k \in DOMAIN report.value.requests}

(* C21: a by-view report never fails; it holds at most 5 records, one for  *)
(* each of the views it reports, which are the views of non-null aggregate *)
(* when there are at most 5 and otherwise 5 of them with no view of a      *)
(* larger aggregate left out; the records come in non-increasing order of  *)
(* their own metric.                                                       *)
C21_TopViewsReport ==
    (report.run /\ report.kind \in ByViewKinds) =>
        LET reqs   == report.value.requests
            ranked == RankedViews(report.kind)
        IN  /\ report.value.raised = NULL
            /\ Len(reqs) <= 5
            /\ \A j, k \in DOMAIN reqs :
                   j # k => reqs[j].request.view_name # reqs[k].request.view_name
            /\ ReportedViews \subseteq ranked
            /\ Cardinality(ReportedViews) =
                   IF Cardinality(ranked) <= 5 THEN Cardinality(ranked) ELSE 5
            /\ \A v \in ReportedViews : \A w \in ranked \ ReportedViews :
                   GroupAggregate(w, report.kind) <= GroupAggregate(v, report.kind)
            /\ \A j, k \in DOMAIN reqs : j < k => reqs[j].t >= reqs[k].t
            /\ \A k \in DOMAIN reqs :
                   OwnMetric(reqs[k].request, report.kind) = Some(reqs[k].t)

(* A report of 5 records over 6 views of non-null aggregate. *)
C21_Witness ==
    /\ report.run /\ report.kind = "most_queries"
    /\ Cardinality(RankedViews(report.kind)) = 6
    /\ Len(report.value.requests) = 5

(* A report over a table with a view of null aggregate, which it leaves    *)
(* out.                                                                    *)
C21_WitnessNull ==
    /\ report.run /\ report.kind = "longest_queries_by_view"
    /\ \E i \in DOMAIN Filtered : Filtered[i].view_name \notin RankedViews(report.kind)
    /\ Len(report.value.requests) = 5

(***************************************************************************)
(* SpecShow: _get_objects over tables of up to MaxBeyond rows more than    *)
(* default_show, with show not passed, None, or a number.  The rows have   *)
(* start times of their own, so that the listing has one order.            *)
(***************************************************************************)
MaxBeyond == 2

LongRow(pk) ==
    [pk |-> pk, path |-> IF pk % 3 = 0 THEN "/b" ELSE "/a", method |-> "GET",
     start_time |-> pk, num_sql_queries |-> 0, time_taken |-> Some(pk),
     db_time |-> NULL]

LongTables == {[pk \in 1..n |-> LongRow(pk)] : n \in 0..(default_show + MaxBeyond)}

ShowNumbers == {0, 2, default_show + 1}
LongShows   == {ShowNotSet, ShowValue(NULL)} \cup {ShowValue(Some(n)) : n \in ShowNumbers}

(* _get_objects(show=..., order_dir=..., path=...) and _get_objects(...)   *)
(* without show                                                            *)
GetObjectsShow ==
    \E rows \in LongTables, show \in LongShows, dir \in ObjOrderDirs, path \in ObjPaths :
        GetObjects(rows, show, NULL, dir, path, <<>>, NULL)

ShowNext == GetObjectsShow \/ ReturnObjects

SpecShow == ObjInit /\ [][ShowNext]_vars

(* The rows of the table that the call selects, and how many there are. *)
SelectedRows ==
    {r \in Range(objects.table) : objects.path = NULL \/ r.path = Val(objects.path)}

(* r is listed before q in the direction of the call. *)
ListedBefore(r, q) ==
    IF objects.order_dir = Some("ASC") THEN r.start_time < q.start_time
    ELSE r.start_time > q.start_time

(* The result is the first n of the selected rows, all of them when there  *)
(* are no more than n.                                                     *)
IsFirst(n) ==
    /\ Len(objects.rows) = IF Cardinality(SelectedRows) <= n
                           THEN Cardinality(SelectedRows) ELSE n
    /\ Range(objects.rows) \subseteq SelectedRows
    /\ \A i, j \in DOMAIN objects.rows :
           i < j => ListedBefore(objects.rows[i], objects.rows[j])
    /\ \A r \in Range(objects.rows) : \A q \in SelectedRows \ Range(objects.rows) :
           ListedBefore(r, q)

(* C27: when show is not passed the result is the first 25 records of the  *)
(* listing, when it is a number n the first n, and when it is None the     *)
(* whole listing.                                                          *)
C27_ShowThreeStates ==
    (objects.run /\ objects.raised = NULL) =>
        IF ~objects.show.passed THEN IsFirst(25)
        ELSE IF objects.show.value = NULL THEN IsFirst(Cardinality(SelectedRows))
        ELSE IsFirst(Val(objects.show.value))

(* Of 27 records the call without show returns 25. *)
C27_Witness ==
    /\ objects.run /\ ~objects.show.passed
    /\ Cardinality(SelectedRows) = 27
    /\ Len(objects.rows) = 25

(* Of 27 records the call with show=None returns 27. *)
C27_WitnessNone ==
    /\ objects.run /\ objects.show = ShowValue(NULL)
    /\ Cardinality(SelectedRows) = 27
    /\ Len(objects.rows) = 27

(* Of 27 records the call with show=26 returns 26. *)
C27_WitnessNumber ==
    /\ objects.run /\ objects.show = ShowValue(Some(26))
    /\ Cardinality(SelectedRows) = 27
    /\ Len(objects.rows) = 26

(***************************************************************************)
(* migrate_to_silky.py                                                     *)
(***************************************************************************)
OLD_PACKAGE == "django-silk"
NEW_PACKAGE == "django-silky"

(* _BACKUP_TOOL: the external tool a backup needs, NULL for none *)
BACKUP_TOOL(engine) ==
    CASE engine = "postgresql" -> Some("pg_dump")
      [] engine = "mysql"      -> Some("mysqldump")
      [] engine = "sqlite"     -> NULL

(* args.backup_dir and backup_dir / f"silk_backup_{ts}{ext}" *)
BackupDir  == "silk_backups"
BackupFile == "silk_backups/silk_backup"

(* die(msg) and sys.exit(1) *)
die(m) == [m EXCEPT !.pc = "exited", !.status = Some(1)]

(* An exception nothing catches, as of subprocess.run(check=True): the     *)
(* interpreter prints the traceback and exits with status 1.               *)
uncaught(m) == [m EXCEPT !.pc = "exited", !.status = Some(1)]

(* main() up to step 2: find_manage_py, get_db_config, detect_engine and   *)
(* the check for the backup tool.                                          *)
preflight(m, settings_read) ==
    IF ~m.manage_py THEN die(m)
    ELSE IF ~settings_read THEN die(m)
    ELSE IF m.engine \notin {"postgresql", "mysql", "sqlite"} THEN die(m)
    ELSE IF ~m.skip_backup /\ BACKUP_TOOL(m.engine) # NULL /\ ~m.tool_in_path
    THEN die(m)
    ELSE [m EXCEPT !.pc = "backup"]

(* do_backup with the directory made before dry_run is looked at. *)
do_backup_mkdir_first(m, outcome) ==
    LET made == [m EXCEPT !.files = @ \cup {BackupDir}, !.ran = Append(@, "mkdir")]
    IN  IF m.dry_run THEN [made EXCEPT !.backup_file = Some(BackupFile)]
        ELSE IF outcome = "ok"
        THEN [made EXCEPT !.files = @ \cup {BackupFile},
                          !.backup_content = Some(m.tables),
                          !.backup_file = Some(BackupFile),
                          !.ran = Append(@, "backup")]
        ELSE uncaught([made EXCEPT
                 !.files = IF m.engine = "mysql" THEN @ \cup {BackupFile} ELSE @,
                 !.ran = Append(@, "backup")])

(* do_backup: the backup function of the engine writes the file or fails;  *)
(* backup_mysql opens the file before it dumps.                            *)
do_backup(m, outcome) ==
    IF m.dry_run THEN [m EXCEPT !.backup_file = Some(BackupFile)]
    ELSE LET made == [m EXCEPT !.files = @ \cup {BackupDir}, !.ran = Append(@, "mkdir")]
         IN  IF outcome = "ok"
             THEN [made EXCEPT !.files = @ \cup {BackupFile},
                               !.backup_content = Some(m.tables),
                               !.backup_file = Some(BackupFile),
                               !.ran = Append(@, "backup")]
             ELSE uncaught([made EXCEPT
                      !.files = IF m.engine = "mysql" THEN @ \cup {BackupFile} ELSE @,
                      !.ran = Append(@, "backup")])

(* Step 2 *)
step_backup(m, outcome) ==
    IF m.skip_backup THEN [m EXCEPT !.pc = "swap"]
    ELSE LET b == do_backup(m, outcome)
         IN  IF b.pc = "exited" THEN b ELSE [b EXCEPT !.pc = "swap"]

(* Step 3 with the uninstall run whether or not the old package was found. *)
step_swap_always_uninstalls(m, uninstall, install) ==
    IF m.dry_run THEN [m EXCEPT !.pc = "migrations"]
    ELSE LET removed ==
                 IF uninstall = "ok"
                 THEN [m EXCEPT !.packages = @ \ {OLD_PACKAGE},
                                !.ran = Append(@, "pip uninstall")]
                 ELSE uncaught([m EXCEPT !.ran = Append(@, "pip uninstall")])
         IN  IF removed.pc = "exited" THEN removed
             ELSE IF install = "ok"
             THEN [removed EXCEPT !.packages = @ \cup {NEW_PACKAGE},
                                  !.ran = Append(@, "pip install"),
                                  !.pc = "migrations"]
             ELSE uncaught([removed EXCEPT !.ran = Append(@, "pip install")])

(* Step 3 *)
step_swap(m, uninstall, install) ==
    IF m.dry_run THEN [m EXCEPT !.pc = "migrations"]
    ELSE LET removed ==
                 IF ~m.silk_ver THEN m
                 ELSE IF uninstall = "ok"
                 THEN [m EXCEPT !.packages = @ \ {OLD_PACKAGE},
                                !.ran = Append(@, "pip uninstall")]
                 ELSE uncaught([m EXCEPT !.ran = Append(@, "pip uninstall")])
         IN  IF removed.pc = "exited" THEN removed
             ELSE IF install = "ok"
             THEN [removed EXCEPT !.packages = @ \cup {NEW_PACKAGE},
                                  !.ran = Append(@, "pip install"),
                                  !.pc = "migrations"]
             ELSE uncaught([removed EXCEPT !.ran = Append(@, "pip install")])

(* do_restore: the restore function of the engine puts the tables back or  *)
(* fails.                                                                  *)
do_restore(m, outcome) ==
    IF outcome = "ok"
    THEN [m EXCEPT !.tables = Val(m.backup_content), !.ran = Append(@, "restore")]
    ELSE uncaught([m EXCEPT !.ran = Append(@, "restore")])

(* Step 4 with a failed migrate that restores nothing. *)
step_migrations_no_restore(m, shown, migrate, restore) ==
    IF m.dry_run THEN [m EXCEPT !.pc = "verify"]
    ELSE IF shown # "pending" THEN [m EXCEPT !.shown = shown, !.pc = "verify"]
    ELSE IF migrate = "ok"
    THEN [m EXCEPT !.shown = shown, !.tables = "migrated",
                   !.ran = Append(@, "migrate"), !.pc = "verify"]
    ELSE die([m EXCEPT !.shown = shown, !.tables = "failed",
                       !.ran = Append(@, "migrate"), !.migrate_failed = TRUE])

(* Step 4: showmigrations gives nothing readable, no pending migration or  *)
(* pending ones; with pending ones migrate runs, and when it fails the     *)
(* backup, if there is one, is restored and the script exits.              *)
step_migrations(m, shown, migrate, restore) ==
    IF m.dry_run THEN [m EXCEPT !.pc = "verify"]
    ELSE IF shown # "pending" THEN [m EXCEPT !.shown = shown, !.pc = "verify"]
    ELSE IF migrate = "ok"
    THEN [m EXCEPT !.shown = shown, !.tables = "migrated",
                   !.ran = Append(@, "migrate"), !.pc = "verify"]
    ELSE LET failed == [m EXCEPT !.shown = shown, !.tables = "failed",
                                 !.ran = Append(@, "migrate"),
                                 !.migrate_failed = TRUE]
         IN  IF failed.backup_file # NULL /\ BackupFile \in failed.files
             THEN die(do_restore(failed, restore))
             ELSE die(failed)

(* Step 5 *)
step_verify(m) ==
    IF m.dry_run THEN [m EXCEPT !.pc = "done"]
    ELSE [m EXCEPT !.out = Append(@, "verify"), !.pc = "done"]

(* The closing message and the end of main(). *)
step_done(m) ==
    [m EXCEPT !.out = Append(@, "All done"), !.pc = "exited", !.status = Some(0)]

(***************************************************************************)
(* SpecMigrate: one run of migrate_to_silky.py, step by step, for each     *)
(* choice of --dry-run and --skip-backup, on a project with or without     *)
(* django-silk, of any engine, with or without the backup tool, and with   *)
(* every external command succeeding or failing.                           *)
(***************************************************************************)
Engines  == {"postgresql", "mysql", "sqlite", "oracle"}
Outcomes == {"ok", "fail"}

MigOthers == <<fpVars, npVars, pctVars, histVars, reqVars, sortVars, objVars, aggVars, sumVars, sessVars, relVars, clrVars>>

MigInit ==
    /\ \E dry_run, skip_backup, manage_py, silk_ver, tool_in_path \in BOOLEAN,
          engine \in Engines :
           mig = [run |-> TRUE, pc |-> "preflight", dry_run |-> dry_run,
                  skip_backup |-> skip_backup, manage_py |-> manage_py,
                  silk_ver |-> silk_ver, engine |-> engine,
                  tool_in_path |-> tool_in_path,
                  packages |-> IF silk_ver THEN {OLD_PACKAGE} ELSE {},
                  files |-> {}, tables |-> "original",
                  backup_file |-> NULL, backup_content |-> NULL,
                  shown |-> "", migrate_failed |-> FALSE, ran |-> <<>>, out |-> <<>>,
                  status |-> NULL]
    /\ FpIdle /\ NpIdle /\ PctIdle /\ HistIdle /\ ReqIdle /\ SortIdle /\ ObjIdle /\ AggIdle /\ SumIdle /\ SessIdle /\ RelIdle /\ ClrIdle

Preflight ==
    /\ mig.pc = "preflight"
    /\ \E settings_read \in BOOLEAN : mig' = preflight(mig, settings_read)
    /\ UNCHANGED MigOthers

Backup ==
    /\ mig.pc = "backup"
    /\ \E outcome \in Outcomes : mig' = step_backup(mig, outcome)
    /\ UNCHANGED MigOthers

SwapPackages ==
    /\ mig.pc = "swap"
    /\ \E uninstall, install \in Outcomes : mig' = step_swap(mig, uninstall, install)
    /\ UNCHANGED MigOthers

Migrations ==
    /\ mig.pc = "migrations"
    /\ \E shown \in {"unreadable", "applied", "pending"}, migrate, restore \in Outcomes :
           mig' = step_migrations(mig, shown, migrate, restore)
    /\ UNCHANGED MigOthers

Verify ==
    /\ mig.pc = "verify"
    /\ mig' = step_verify(mig)
    /\ UNCHANGED MigOthers

Done ==
    /\ mig.pc = "done"
    /\ mig' = step_done(mig)
    /\ UNCHANGED MigOthers

MigNext == Preflight \/ Backup \/ SwapPackages \/ Migrations \/ Verify \/ Done

SpecMigrate == MigInit /\ [][MigNext]_vars

(* The position of an entry in a sequence, 0 when it is not there. *)
PositionOf(entry, seq) ==
    IF \E k \in DOMAIN seq : seq[k] = entry
    THEN CHOOSE k \in DOMAIN seq : seq[k] = entry ELSE 0

(* A run that is no dry run and has a backup, in which migrate failed. *)
MigrateFailed == /\ ~mig.dry_run /\ ~mig.skip_backup
                 /\ mig.migrate_failed

C28_WitnessRestoreFailed ==
    /\ MigrateFailed
    /\ mig.pc = "exited" /\ mig.status = Some(1)
    /\ mig.tables = "failed"

(* C29: in a dry run nothing is changed at any step: no backup directory   *)
(* or file is made, no package is removed or installed, no migration and   *)
(* no restore is run, and the tables are as they were.                     *)
C29_DryRunChangesNothing ==
    mig.dry_run =>
        /\ mig.files = {}
        /\ mig.packages = (IF mig.silk_ver THEN {"django-silk"} ELSE {})
        /\ mig.tables = "original"
        /\ mig.ran = <<>>
        /\ mig.out \in {<<>>, <<"All done">>}

(* A dry run without --skip-backup has gone through all five steps. *)
C29_Witness ==
    /\ mig.dry_run /\ ~mig.skip_backup
    /\ mig.pc = "exited" /\ mig.status = Some(0)
    /\ mig.backup_file # NULL
    /\ mig.out = <<"All done">>

(* C36: in a run that is no dry run and has a backup, the backup is        *)
(* complete before a package is uninstalled or installed and before        *)
(* migrate runs; the old package is uninstalled only when it was found     *)
(* installed, the new one is installed after that, and migrate runs only   *)
(* when showmigrations reported a pending migration.                       *)
C36_BackupFirst ==
    (~mig.dry_run /\ ~mig.skip_backup) =>
        /\ \A k \in DOMAIN mig.ran :
              mig.ran[k] \in {"pip uninstall", "pip install", "migrate"} =>
                  /\ PositionOf("backup", mig.ran) \in 1..(k - 1)
                  /\ mig.backup_file # NULL
                  /\ mig.backup_content = Some("original")
                  /\ BackupFile \in mig.files
        /\ PositionOf("pip uninstall", mig.ran) > 0 => mig.silk_ver
        /\ PositionOf("pip install", mig.ran) > 0 =>
              /\ mig.silk_ver =>
                    PositionOf("pip uninstall", mig.ran) = PositionOf("pip install", mig.ran) - 1
              /\ OLD_PACKAGE \notin mig.packages
        /\ PositionOf("migrate", mig.ran) > 0 =>
              /\ mig.shown = "pending"
              /\ PositionOf("pip install", mig.ran) = PositionOf("migrate", mig.ran) - 1

(* The whole migration: backup, uninstall, install, migrate, done. *)
C36_Witness ==
    /\ ~mig.dry_run /\ ~mig.skip_backup /\ mig.silk_ver
    /\ mig.ran = <<"mkdir", "backup", "pip uninstall", "pip install", "migrate">>
    /\ mig.pc = "exited" /\ mig.status = Some(0)

(* The old package was not found and nothing is pending: backup and        *)
(* install only.                                                           *)
C36_WitnessNothingPending ==
    /\ ~mig.dry_run /\ ~mig.skip_backup /\ ~mig.silk_ver
    /\ mig.shown = "applied"
    /\ mig.ran = <<"mkdir", "backup", "pip install">>
    /\ mig.pc = "exited" /\ mig.status = Some(0)

(***************************************************************************)
(* release.py                                                              *)
(***************************************************************************)

(* validate_version: a version that _VERSION_RE does not match ends the    *)
(* script.                                                                 *)
validate_version(r) ==
    IF ~r.version_matches THEN die([r EXCEPT !.failed = "invalid version"])
    ELSE [r EXCEPT !.pc = "preflight"]

(* step_preflight: the branch, the working tree, the tag, the tools and    *)
(* the build module are looked at with commands that only read.            *)
step_preflight(r, clean, tagged, tools, build) ==
    LET branch == [r EXCEPT !.ran = Append(@, "git rev-parse")]
        status == [branch EXCEPT !.ran = Append(@, "git status")]
        tags   == [status EXCEPT !.ran = Append(@, "git tag --list")]
        import == [tags EXCEPT !.ran = Append(@, "import build")]
    IN  IF ~clean THEN die([status EXCEPT !.failed = "working tree dirty"])
        ELSE IF tagged THEN die([tags EXCEPT !.failed = "tag exists"])
        ELSE IF ~tools THEN die([tags EXCEPT !.failed = "tool not found"])
        ELSE IF ~build THEN die([import EXCEPT !.failed = "build not installed"])
        ELSE [import EXCEPT !.pc = "tests"]

(* step_tests: only --skip-tests keeps pytest from running. *)
step_tests(r, pytest) ==
    IF r.skip_tests THEN [r EXCEPT !.pc = "tag"]
    ELSE LET tested == [r EXCEPT !.ran = Append(@, "pytest")]
         IN  IF pytest # "ok" THEN die([tested EXCEPT !.failed = "tests failed"])
             ELSE [tested EXCEPT !.pc = "tag"]

(* step_tag and _get_remote *)
step_tag(r, tag, remotes, push) ==
    IF r.dry_run THEN [r EXCEPT !.pc = "build"]
    ELSE LET tried == [r EXCEPT !.ran = Append(@, "git tag")]
         IN  IF tag # "ok" THEN uncaught([tried EXCEPT !.failed = "git tag"])
             ELSE IF r.skip_push THEN [tried EXCEPT !.pc = "build"]
             ELSE LET listed == [tried EXCEPT !.ran = Append(@, "git remote")]
                  IN  IF remotes = {} THEN die([listed EXCEPT !.failed = "no remote"])
                      ELSE IF push # "ok"
                      THEN uncaught([listed EXCEPT !.ran = Append(@, "git push"),
                                                   !.failed = "git push"])
                      ELSE [listed EXCEPT !.ran = Append(@, "git push"), !.pc = "build"]

(* step_build *)
step_build(r, build) ==
    IF r.dry_run THEN [r EXCEPT !.pc = "check"]
    ELSE LET cleaned == IF "dist" \in r.files
                        THEN [r EXCEPT !.files = @ \ {"dist"}, !.ran = Append(@, "rmtree")]
                        ELSE r
             tried == [cleaned EXCEPT !.ran = Append(@, "python -m build")]
         IN  IF build # "ok" THEN uncaught([tried EXCEPT !.failed = "build"])
             ELSE [tried EXCEPT !.files = @ \cup {"dist"}, !.pc = "check"]

(* step_check going on to the upload when twine check fails. *)
step_check_goes_on(r, check) ==
    IF r.dry_run THEN [r EXCEPT !.pc = "upload"]
    ELSE LET tried == [r EXCEPT !.ran = Append(@, "twine check")]
         IN  IF check # "ok" THEN [tried EXCEPT !.failed = "twine check failed", !.pc = "upload"]
             ELSE [tried EXCEPT !.pc = "upload"]

(* step_check *)
step_check(r, check) ==
    IF r.dry_run THEN [r EXCEPT !.pc = "upload"]
    ELSE LET tried == [r EXCEPT !.ran = Append(@, "twine check")]
         IN  IF check # "ok" THEN die([tried EXCEPT !.failed = "twine check failed"])
             ELSE [tried EXCEPT !.pc = "upload"]

(* step_upload *)
step_upload(r, test_upload, upload) ==
    IF r.dry_run THEN [r EXCEPT !.pc = "released"]
    ELSE LET tested == IF r.test_pypi \/ r.test_pypi_only
                       THEN [r EXCEPT !.ran = Append(@, "twine upload testpypi")]
                       ELSE r
         IN  IF (r.test_pypi \/ r.test_pypi_only) /\ test_upload # "ok"
             THEN uncaught([tested EXCEPT !.failed = "twine upload testpypi"])
             ELSE IF r.test_pypi_only THEN [tested EXCEPT !.pc = "released"]
             ELSE IF upload # "ok"
             THEN uncaught([tested EXCEPT !.ran = Append(@, "twine upload"),
                                          !.failed = "twine upload"])
             ELSE [tested EXCEPT !.ran = Append(@, "twine upload"), !.pc = "released"]

(* The closing message of main(). *)
released(r) ==
    [r EXCEPT !.out = Append(@, "Released"), !.pc = "exited", !.status = Some(0)]

(***************************************************************************)
(* SpecRelease: one run of release.py, step by step, for each choice of    *)
(* its flags, with every command it runs succeeding or failing.            *)
(***************************************************************************)
RelOthers == <<fpVars, npVars, pctVars, histVars, reqVars, sortVars, objVars, aggVars, sumVars, sessVars, migVars, clrVars>>

RelInit ==
    /\ \E dry_run, skip_tests, skip_push, test_pypi, test_pypi_only, version_matches \in BOOLEAN,
          files \in {{}, {"dist"}} :
           rel = [run |-> TRUE, pc |-> "validate", dry_run |-> dry_run,
                  skip_tests |-> skip_tests, skip_push |-> skip_push,
                  test_pypi |-> test_pypi, test_pypi_only |-> test_pypi_only,
                  version_matches |-> version_matches, files |-> files,
                  failed |-> "", ran |-> <<>>, out |-> <<>>, status |-> NULL]
    /\ FpIdle /\ NpIdle /\ PctIdle /\ HistIdle /\ ReqIdle /\ SortIdle /\ ObjIdle /\ AggIdle /\ SumIdle /\ SessIdle /\ MigIdle /\ ClrIdle

ValidateVersion ==
    /\ rel.pc = "validate"
    /\ rel' = validate_version(rel)
    /\ UNCHANGED RelOthers

StepPreflight ==
    /\ rel.pc = "preflight"
    /\ \E clean, tagged, tools, build \in BOOLEAN :
           rel' = step_preflight(rel, clean, tagged, tools, build)
    /\ UNCHANGED RelOthers

StepTests ==
    /\ rel.pc = "tests"
    /\ \E pytest \in Outcomes : rel' = step_tests(rel, pytest)
    /\ UNCHANGED RelOthers

StepTag ==
    /\ rel.pc = "tag"
    /\ \E tag, push \in Outcomes, remotes \in {{}, {"origin"}} :
           rel' = step_tag(rel, tag, remotes, push)
    /\ UNCHANGED RelOthers

StepBuild ==
    /\ rel.pc = "build"
    /\ \E build \in Outcomes : rel' = step_build(rel, build)
    /\ UNCHANGED RelOthers

StepCheck ==
    /\ rel.pc = "check"
    /\ \E check \in Outcomes : rel' = step_check(rel, check)
    /\ UNCHANGED RelOthers

StepUpload ==
    /\ rel.pc = "upload"
    /\ \E test_upload, upload \in Outcomes : rel' = step_upload(rel, test_upload, upload)
    /\ UNCHANGED RelOthers

Released ==
    /\ rel.pc = "released"
    /\ rel' = released(rel)
    /\ UNCHANGED RelOthers

RelNext == ValidateVersion \/ StepPreflight \/ StepTests \/ StepTag \/ StepBuild
               \/ StepCheck \/ StepUpload \/ Released

SpecRelease == RelInit /\ [][RelNext]_vars

(* The commands of the steps after the pre-flight. *)
StepCommands == {"pytest", "git tag", "git remote", "git push", "rmtree",
                 "python -m build", "twine check", "twine upload testpypi",
                 "twine upload"}

(* The step commands a run has executed so far. *)
Executed == {rel.ran[k] : k \in DOMAIN rel.ran} \cap StepCommands

(* C30, as stated: in a dry run no test suite is run, no tag is made or    *)
(* pushed and nothing is built, checked or uploaded.                       *)
C30_DryRunExecutesNothing ==
    rel.run /\ rel.dry_run => Executed = {}

(* What the code keeps: in a dry run the only step command executed is     *)
(* pytest, and not even that with --skip-tests.                            *)
C30_DryRunRunsOnlyTests ==
    rel.run /\ rel.dry_run =>
        /\ Executed \subseteq {"pytest"}
        /\ rel.skip_tests => Executed = {}
        /\ rel.files \in {{}, {"dist"}}

(* A dry run has run the test suite and gone on to the closing message. *)
C30_WitnessPytest ==
    /\ rel.run /\ rel.dry_run /\ ~rel.skip_tests
    /\ "pytest" \in Executed
    /\ rel.pc = "exited" /\ rel.status = Some(0)
    /\ rel.out = <<"Released">>

(* A dry run whose test suite failed has ended with status 1. *)
C30_WitnessTestsFailed ==
    /\ rel.run /\ rel.dry_run
    /\ rel.ran # <<>> /\ rel.ran[Len(rel.ran)] = "pytest"
    /\ rel.pc = "exited" /\ rel.status = Some(1)

(* The step a command belongs to: 1 pre-flight, 2 tests, 3 tag, 4 build,   *)
(* 5 twine check, 6 upload.                                                *)
StepOf(command) ==
    CASE command \in {"git rev-parse", "git status", "git tag --list", "import build"} -> 1
      [] command = "pytest" -> 2
      [] command \in {"git tag", "git remote", "git push"} -> 3
      [] command \in {"rmtree", "python -m build"} -> 4
      [] command = "twine check" -> 5
      [] command \in {"twine upload testpypi", "twine upload"} -> 6

Ran(command) == PositionOf(command, rel.ran) > 0

(* C37: in a run that is no dry run the commands come in the order of the  *)
(* steps pre-flight, tests, tag, build, twine check, upload, none of them  *)
(* twice and none without the step before it; a failure ends the run with  *)
(* status 1 and no further command; no tag after a dirty working tree, an  *)
(* existing tag or failed tests; no upload without a twine check that      *)
(* passed; with --test-pypi the TestPyPI upload comes before the PyPI      *)
(* upload; with --test-pypi-only no PyPI upload; with --skip-push no push.  *)
C37_ReleaseOrder ==
    (rel.run /\ ~rel.dry_run) =>
        /\ \A i, j \in DOMAIN rel.ran :
              i < j => /\ StepOf(rel.ran[i]) <= StepOf(rel.ran[j])
                       /\ rel.ran[i] # rel.ran[j]
        /\ Ran("git tag") => Ran("import build") /\ (Ran("pytest") \/ rel.skip_tests)
        /\ Ran("python -m build") =>
              Ran("git tag") /\ (Ran("git push") \/ rel.skip_push)
        /\ Ran("twine check") => Ran("python -m build")
        /\ rel.failed # "" =>
              /\ rel.pc = "exited" /\ rel.status = Some(1) /\ rel.out = <<>>
              /\ rel.failed \in StepCommands => rel.ran[Len(rel.ran)] = rel.failed
        /\ rel.failed \in {"working tree dirty", "tag exists", "tests failed"} =>
              ~Ran("git tag")
        /\ (Ran("twine upload testpypi") \/ Ran("twine upload")) =>
              Ran("twine check") /\ rel.failed # "twine check failed"
        /\ (rel.test_pypi /\ Ran("twine upload")) =>
              /\ Ran("twine upload testpypi")
              /\ PositionOf("twine upload testpypi", rel.ran)
                     < PositionOf("twine upload", rel.ran)
        /\ rel.test_pypi_only => ~Ran("twine upload")
        /\ rel.skip_push => ~Ran("git push")

(* A full release with --test-pypi: every step ran, TestPyPI first. *)
C37_Witness ==
    /\ rel.run /\ ~rel.dry_run /\ rel.test_pypi /\ ~rel.test_pypi_only
    /\ ~rel.skip_tests /\ ~rel.skip_push /\ rel.files = {"dist"}
    /\ rel.ran = <<"git rev-parse", "git status", "git tag --list", "import build",
                   "pytest", "git tag", "git remote", "git push", "python -m build",
                   "twine check", "twine upload testpypi", "twine upload">>
    /\ rel.pc = "exited" /\ rel.status = Some(0)

(* The tests failed: the run ended after pytest, without a tag. *)
C37_WitnessTestsFailed ==
    /\ rel.run /\ ~rel.dry_run
    /\ rel.failed = "tests failed"
    /\ rel.ran[Len(rel.ran)] = "pytest"
    /\ rel.pc = "exited" /\ rel.status = Some(1)

(* twine check failed after tag and build: nothing was uploaded. *)
C37_WitnessCheckFailed ==
    /\ rel.run /\ ~rel.dry_run
    /\ rel.failed = "twine check failed"
    /\ Ran("git tag") /\ Ran("python -m build")
    /\ ~Ran("twine upload testpypi") /\ ~Ran("twine upload")

(* --test-pypi-only with --skip-push: released to TestPyPI only, the tag   *)
(* not pushed.                                                             *)
C37_WitnessTestPypiOnly ==
    /\ rel.run /\ ~rel.dry_run /\ rel.test_pypi_only /\ rel.skip_push
    /\ Ran("git tag") /\ Ran("twine upload testpypi")
    /\ rel.pc = "exited" /\ rel.status = Some(0)

(***************************************************************************)
(* ClearDBView                                                             *)
(***************************************************************************)
Models == {"Profile", "SQLQuery", "Response", "Request"}

(* delete_model(model): every row of the model is deleted, no other row. *)
delete_model(d, model) ==
    [d EXCEPT !.rows[model] = {}, !.deleted = Append(@, model)]

(* The loop over os.listdir(dir): every entry of the profiler result path  *)
(* is removed.                                                             *)
remove_profiler_files(d) == [d EXCEPT !.files = {}]

(* The clear_all branch. *)
clear_all(d) ==
    LET deleted == delete_model(delete_model(delete_model(delete_model(d,
                       "Profile"), "SQLQuery"), "Response"), "Request")
        cleared == [deleted EXCEPT !.cleared = <<"Response", "SQLQuery", "Profile", "Request">>]
    IN  IF d.SILKY_DELETE_PROFILES
        THEN [remove_profiler_files(cleared) EXCEPT !.cleared = Append(@, "profiler files")]
        ELSE cleared

(* The clear_requests part of the other branch. *)
clear_requests(d) ==
    LET deleted == delete_model(delete_model(delete_model(d,
                       "SQLQuery"), "Response"), "Request")
    IN  [deleted EXCEPT !.cleared = @ \o <<"Response", "SQLQuery", "Request">>]

(* The clear_profiling part of the other branch. *)
clear_profiling(d) ==
    LET cleared == [delete_model(d, "Profile") EXCEPT !.cleared = Append(@, "Profile")]
    IN  IF d.SILKY_DELETE_PROFILES
        THEN [remove_profiler_files(cleared) EXCEPT !.cleared = Append(@, "profiler files")]
        ELSE cleared

(* post() with clear_requests clearing the profiles too. *)
clear_db_post_requests_and_profiles(d, POST) ==
    LET start == [d EXCEPT !.deleted = <<>>, !.cleared = <<>>]
        done  == IF "clear_all" \in POST THEN clear_all(start)
                 ELSE IF "clear_requests" \in POST
                      THEN clear_profiling(clear_requests(start))
                      ELSE IF "clear_profiling" \in POST THEN clear_profiling(start)
                           ELSE start
    IN  [done EXCEPT !.msg = IF done.cleared # <<>> THEN Some(done.cleared) ELSE NULL]

(* ClearDBView.post *)
clear_db_post(d, POST) ==
    LET start == [d EXCEPT !.deleted = <<>>, !.cleared = <<>>]
        reqs  == IF "clear_requests" \in POST THEN clear_requests(start) ELSE start
        done  == IF "clear_all" \in POST THEN clear_all(start)
                 ELSE IF "clear_profiling" \in POST THEN clear_profiling(reqs)
                      ELSE reqs
    IN  [done EXCEPT !.msg = IF done.cleared # <<>> THEN Some(done.cleared) ELSE NULL]

(* ClearDBView.get: the page is rendered without a context. *)
clear_db_get(d) == [d EXCEPT !.deleted = <<>>, !.cleared = <<>>, !.msg = NULL]

(***************************************************************************)
(* SpecClearDB: data is recorded and profiles are written between the      *)
(* requests; the clear-DB view is asked with GET and with POSTs of any     *)
(* keys.                                                                   *)
(***************************************************************************)
ClearKeys == {"clear_all", "clear_requests", "clear_profiling", "csrfmiddlewaretoken"}

ClrOthers == <<fpVars, npVars, pctVars, histVars, reqVars, sortVars, objVars, aggVars, sumVars, sessVars, migVars, relVars>>

ClrInit ==
    /\ \E setting \in BOOLEAN :
           cleardb = [run |-> TRUE, SILKY_DELETE_PROFILES |-> setting,
                      rows |-> [m \in Models |-> {}], files |-> {},
                      method |-> "", POST |-> {}, before |-> [m \in Models |-> {}],
                      files_before |-> {}, after |-> [m \in Models |-> {}],
                      files_after |-> {},
                      deleted |-> <<>>, cleared |-> <<>>, msg |-> NULL]
    /\ FpIdle /\ NpIdle /\ PctIdle /\ HistIdle /\ ReqIdle /\ SortIdle /\ ObjIdle /\ AggIdle /\ SumIdle /\ SessIdle /\ MigIdle /\ RelIdle

(* A row of a model is recorded by the profiler. *)
RecordData(model) ==
    /\ cleardb.rows[model] = {}
    /\ cleardb' = [cleardb EXCEPT !.rows[model] = {1}]
    /\ UNCHANGED ClrOthers

(* A profile file is written to the profiler result path. *)
WriteProfilerFile ==
    /\ cleardb.files = {}
    /\ cleardb' = [cleardb EXCEPT !.files = {"1.prof"}]
    /\ UNCHANGED ClrOthers

ClearDBGet ==
    /\ LET done == clear_db_get(cleardb)
       IN  cleardb' = [done EXCEPT
                          !.method = "GET", !.POST = {},
                          !.before = cleardb.rows, !.files_before = cleardb.files,
                          !.after = done.rows, !.files_after = done.files]
    /\ UNCHANGED ClrOthers

ClearDBPost(POST) ==
    /\ LET done == clear_db_post(cleardb, POST)
       IN  cleardb' = [done EXCEPT
                          !.method = "POST", !.POST = POST,
                          !.before = cleardb.rows, !.files_before = cleardb.files,
                          !.after = done.rows, !.files_after = done.files]
    /\ UNCHANGED ClrOthers

ClrNext == \/ \E model \in Models : RecordData(model)
           \/ WriteProfilerFile
           \/ ClearDBGet
           \/ \E POST \in SUBSET ClearKeys : ClearDBPost(POST)

SpecClearDB == ClrInit /\ [][ClrNext]_vars

(* The models a request issued a delete for, and whether one of them came  *)
(* before another.                                                         *)
Deleted == Range(cleardb.deleted)
DeletedBefore(m, n) ==
    PositionOf(m, cleardb.deleted) < PositionOf(n, cleardb.deleted)

(* C38: a GET, and a POST with none of clear_all, clear_requests and       *)
(* clear_profiling, deletes nothing and has no message; a POST with        *)
(* clear_all issues a delete for all four models whatever else it carries; *)
(* without clear_all, clear_requests issues deletes for SQLQuery, Response *)
(* and Request and none for Profile, clear_profiling one for Profile only; *)
(* Request is deleted after SQLQuery and Response; no model is deleted     *)
(* twice; the profiler files are removed only when Profile is deleted and  *)
(* SILKY_DELETE_PROFILES is set; the message is there exactly when         *)
(* something was deleted.                                                  *)
C38_ClearOnlyWhatWasAsked ==
    (cleardb.run /\ cleardb.method # "") =>
        LET POST == cleardb.POST
            asked_requests == "clear_requests" \in POST /\ "clear_all" \notin POST
            asked_profiling == "clear_profiling" \in POST /\ "clear_all" \notin POST
        IN  /\ (cleardb.method = "GET"
                   \/ POST \cap {"clear_all", "clear_requests", "clear_profiling"} = {}) =>
                  /\ cleardb.deleted = <<>>
                  /\ cleardb.msg = NULL
                  /\ cleardb.after = cleardb.before
                  /\ cleardb.files_after = cleardb.files_before
            /\ "clear_all" \in POST => Deleted = Models
            /\ (asked_requests /\ ~asked_profiling) =>
                  Deleted = {"SQLQuery", "Response", "Request"}
            /\ (asked_profiling /\ ~asked_requests) => cleardb.deleted = <<"Profile">>
            /\ (asked_profiling /\ asked_requests) => Deleted = Models
            /\ "Request" \in Deleted =>
                  DeletedBefore("SQLQuery", "Request") /\ DeletedBefore("Response", "Request")
            /\ Len(cleardb.deleted) = Cardinality(Deleted)
            /\ \A m \in Models :
                  cleardb.after[m] = IF m \in Deleted THEN {} ELSE cleardb.before[m]
            /\ cleardb.files_after # cleardb.files_before =>
                  "Profile" \in Deleted /\ cleardb.SILKY_DELETE_PROFILES
            /\ (cleardb.msg # NULL) <=> (Deleted # {})

(* clear_requests alone on a database with rows of all four models and a   *)
(* profiler file, with SILKY_DELETE_PROFILES set: the profiles and the     *)
(* file stay.                                                              *)
C38_Witness ==
    /\ cleardb.run /\ cleardb.method = "POST"
    /\ cleardb.POST = {"clear_requests", "csrfmiddlewaretoken"}
    /\ cleardb.SILKY_DELETE_PROFILES
    /\ \A m \in Models : cleardb.before[m] = {1}
    /\ cleardb.files_before = {"1.prof"}
    /\ cleardb.after = [m \in Models |-> IF m = "Profile" THEN {1} ELSE {}]
    /\ cleardb.files_after = {"1.prof"}
    /\ cleardb.msg = Some(<<"Response", "SQLQuery", "Request">>)

(* clear_all together with the other two keys: all four models and the     *)
(* profiler file are gone, each deleted once.                              *)
C38_WitnessAll ==
    /\ cleardb.run /\ cleardb.method = "POST"
    /\ cleardb.POST = {"clear_all", "clear_requests", "clear_profiling"}
    /\ cleardb.SILKY_DELETE_PROFILES
    /\ \A m \in Models : cleardb.before[m] = {1}
    /\ cleardb.files_before = {"1.prof"}
    /\ cleardb.deleted = <<"Profile", "SQLQuery", "Response", "Request">>
    /\ cleardb.after = [m \in Models |-> {}]
    /\ cleardb.files_after = {}

(* clear_profiling without the setting: the profiles are gone, the file    *)
(* and the requests stay.                                                  *)
C38_WitnessProfiling ==
    /\ cleardb.run /\ cleardb.method = "POST"
    /\ cleardb.POST = {"clear_profiling"}
    /\ ~cleardb.SILKY_DELETE_PROFILES
    /\ \A m \in Models : cleardb.before[m] = {1}
    /\ cleardb.files_before = {"1.prof"}
    /\ cleardb.after = [m \in Models |-> IF m = "Profile" THEN {} ELSE {1}]
    /\ cleardb.files_after = {"1.prof"}

(* A POST with none of the three keys on a full database: nothing goes. *)
C38_WitnessNothing ==
    /\ cleardb.run /\ cleardb.method = "POST"
    /\ cleardb.POST = {"csrfmiddlewaretoken"}
    /\ \A m \in Models : cleardb.before[m] = {1} /\ cleardb.after[m] = {1}
    /\ cleardb.files_before = {"1.prof"} /\ cleardb.files_after = {"1.prof"}
    /\ cleardb.msg = NULL

=============================================================================
